---- MODULE Spec2Model ----
(***************************************************************************)
(* Segment-looping playback engine of the TranscriptViewer component.      *)
(*                                                                         *)
(* Time bases.  Transcript and selection times are whole milliseconds.     *)
(* Audio-engine times (seconds in the source) are fixed-point integers in  *)
(* microseconds, so msToSeconds/secondsToMs are real conversions and the   *)
(* literals 0.1 s and 0.01 s are 100000 and 10000.  Arithmetic is exact;   *)
(* IEEE rounding of the source's doubles is not represented.               *)
(*                                                                         *)
(* React state is read by UI handlers from the latest render.  A function  *)
(* that runs later (an async continuation, an onended handler, a timer     *)
(* callback, an animation-frame tick) sees the state of the render that    *)
(* created it; the one captured value that matters, isPlaying, travels     *)
(* with it as the field cp.                                                *)
(***************************************************************************)
EXTENDS Integers, Sequences, FiniteSets, TLC

\* ---------------------------------------------------------------- bounds
MaxSrc == 3
MaxRaf == 2
MaxTimers == 2
MaxTasks == 2
MaxUserOps == 4
BufferDurationMs == 325
TickSec == 100000
SampleDen == 1000
MaxSeed == 1
MaxFetches == 2

\* --------------------------------------------------- program constants
loopPauseDuration == 200
MinWidthSec == 100000
EndToleranceSec == 10000
ButtonDeltaSec == 100000
NegativeScale == 32768
PositiveScale == 32767
Int16Min == -32768
Int16Max == 32767

\* transcriptData.words: start/end in integer milliseconds
Words ==
  << [start |-> 20,  end |-> 90,  text |-> << "w1" >>],
     [start |-> 100, end |-> 250, text |-> << "w2" >>],
     [start |-> 250, end |-> 300, text |-> << "w3" >>] >>

\* transcriptData.language_code
language_code == "en"

\* a lookup or a selection not asked for
NoProbe == [fn |-> "none"]

NoSel == [start |-> -1, end |-> -1, text |-> << >>]
NoTimer == [sel |-> NoSel, cp |-> FALSE, delay |-> 0]

\* outcome of the latest handleDownload call: the last toast it showed, whether a
\* file was handed to the browser, and what went into it
NoExport ==
  [toast |-> "none", file |-> FALSE, sampleRate |-> 0, numberOfChannels |-> 0,
   startSample |-> 0, seed |-> 0, segment |-> << >>, length |-> 0, header |-> << >>,
   wav |-> << >>]

Max(a, b) == IF a >= b THEN a ELSE b
Min(a, b) == IF a <= b THEN a ELSE b

msToSeconds(ms) == ms * 1000
secondsToMs(sec) == sec \div 1000

VARIABLES
  mounted,
  isPlaying, isPausing, selection, duration,
  audioLoaded, audioError, isDecoding,
  ctxState, audioBufferRef, decodable,
  sources, sourceRef, elapsed, selectionOffsetRef, sourceDurationRef,
  rafPending, rafRef,
  timers, timeoutRef,
  tasks,
  userOps,
  exported,
  fetching,
  probe,
  last

vars ==
  << mounted, isPlaying, isPausing, selection, duration,
     audioLoaded, audioError, isDecoding, ctxState, audioBufferRef, decodable,
     sources, sourceRef, elapsed, selectionOffsetRef, sourceDurationRef,
     rafPending, rafRef, timers, timeoutRef, tasks, userOps, exported, fetching, probe, last >>

reactVars == << isPlaying, isPausing, selection, duration, audioLoaded, audioError, isDecoding >>
engineVars == << sources, sourceRef, elapsed, selectionOffsetRef, sourceDurationRef >>
rafVars == << rafPending, rafRef >>
timerVars == << timers, timeoutRef >>

SrcIds == 1..MaxSrc
RafIds == 1..MaxRaf
TimerIds == 1..MaxTimers

FreeSrcIds == { i \in SrcIds : sources[i].status = "free" }
FreeRafIds == { i \in RafIds : rafPending[i] = "none" }
FreeTimerIds == { i \in TimerIds : timers[i] = NoTimer }
PickMin(S) == CHOOSE x \in S : \A y \in S : x <= y

RemoveAt(s, i) == SubSeq(s, 1, i - 1) \o SubSeq(s, i + 1, Len(s))

\* no continuation is runnable as a microtask: the event loop may take an event
Idle == \A i \in 1..Len(tasks) : tasks[i].pc # "ctxReady"

audioCtxRefSet == ctxState \in {"suspended", "running"}

Init ==
  /\ mounted = TRUE
  /\ isPlaying = FALSE
  /\ isPausing = FALSE
  /\ selection = NoSel
  /\ duration = 0
  /\ audioLoaded = FALSE
  /\ audioError = FALSE
  /\ isDecoding = FALSE
  /\ ctxState = "none"
  /\ audioBufferRef = FALSE
  /\ decodable = "unknown"
  /\ sources = [i \in SrcIds |-> [status |-> "free", cp |-> FALSE, offset |-> 0, durationSec |-> 0]]
  /\ sourceRef = 0
  /\ elapsed = 0
  /\ selectionOffsetRef = 0
  /\ sourceDurationRef = 0
  /\ rafPending = [i \in RafIds |-> "none"]
  /\ rafRef = 0
  /\ timers = [i \in TimerIds |-> NoTimer]
  /\ timeoutRef = 0
  /\ tasks = << >>
  /\ userOps = 0
  /\ exported = NoExport
  /\ probe = NoProbe
  /\ fetching = [load |-> TRUE, retry |-> 0]
  /\ last = [op |-> "init"]

\* ------------------------------------------------------------- helpers
\* cancelRaf
CancelRafPending == IF rafRef = 0 THEN rafPending ELSE [rafPending EXCEPT ![rafRef] = "none"]

\* clearTimeout(timeoutRef.current)
ClearTimeoutTimers == IF timeoutRef = 0 THEN timers ELSE [timers EXCEPT ![timeoutRef] = NoTimer]

\* source.stop(): a sounding source falls silent and its ended event is queued;
\* on a source that already ended the call does nothing
StopStatus(st) == IF st = "playing" THEN "ended" ELSE st

\* The parameters a source was started with are kept while it is the current
\* source: the end notification of any other source is not handled.
NotCurrent(src) == [src EXCEPT !.offset = 0, !.durationSec = 0]
Superseded ==
  IF sourceRef = 0 THEN sources
  ELSE [sources EXCEPT ![sourceRef] = NotCurrent(@)]

StopSources ==
  IF sourceRef = 0 THEN sources
  ELSE [sources EXCEPT ![sourceRef].status = StopStatus(@)]

\* sourceRef.current.stop() followed by sourceRef.current = null
StopAndClearSources ==
  IF sourceRef = 0 THEN sources
  ELSE [StopSources EXCEPT ![sourceRef] = NotCurrent(@)]

\* a stopCurrentSource that stops the source but keeps it as the current one
stopCurrentSourceOn_KeepsSource(tm) ==
  /\ rafPending' = CancelRafPending
  /\ rafRef' = 0
  /\ timers' = IF timeoutRef = 0 THEN tm ELSE [tm EXCEPT ![timeoutRef] = NoTimer]
  /\ timeoutRef' = 0
  /\ sources' = StopSources
  /\ sourceRef' = sourceRef
  /\ isPlaying' = FALSE
  /\ isPausing' = FALSE

\* stopCurrentSource, applied to a timer table tm
stopCurrentSourceOn(tm) ==
  /\ rafPending' = CancelRafPending
  /\ rafRef' = 0
  /\ timers' = IF timeoutRef = 0 THEN tm ELSE [tm EXCEPT ![timeoutRef] = NoTimer]
  /\ timeoutRef' = 0
  /\ sources' = StopAndClearSources
  /\ sourceRef' = 0
  /\ isPlaying' = FALSE
  /\ isPausing' = FALSE

stopCurrentSource == stopCurrentSourceOn(timers)

\* handlePlayError: the React state it sets
handlePlayError ==
  /\ audioError' = TRUE
  /\ isDecoding' = FALSE
  /\ isPlaying' = FALSE
  /\ isPausing' = FALSE

\* getOrCreateAudioContext up to its first await: creates the context when
\* there is none (the platform hands it over running or suspended) and calls
\* resume() on a suspended one
BeginStart(kind, sel, cp) ==
  /\ Len(tasks) < MaxTasks
  /\ \E st \in (IF ctxState = "none" THEN {"suspended", "running"} ELSE {ctxState}) :
       /\ ctxState' = st
       /\ tasks' = Append(tasks,
            [kind |-> kind, pc |-> IF st = "suspended" THEN "resume" ELSE "ctxReady",
             sel |-> sel, cp |-> cp])

\* playSelection up to its first await
playSelectionSync(sel, cp, tm) ==
  /\ stopCurrentSourceOn(tm)
  /\ IF audioLoaded
       THEN /\ audioError' = FALSE
            /\ BeginStart("playSelection", sel, cp)
            /\ UNCHANGED isDecoding
       ELSE /\ audioError' = TRUE
            /\ isDecoding' = FALSE
            /\ UNCHANGED << ctxState, tasks >>

\* a start that also stores the selection it was called with
StartSourceCore_StoresSelection(t) ==
  /\ FreeSrcIds # {}
  /\ FreeRafIds # {}
  /\ LET id == PickMin(FreeSrcIds)
         rid == PickMin(FreeRafIds)
     IN  /\ sources' = [Superseded EXCEPT ![id] =
               [status |-> IF ctxState = "running" THEN "playing" ELSE "inert", cp |-> t.cp,
                offset |-> msToSeconds(t.sel.start),
                durationSec |-> msToSeconds(t.sel.end - t.sel.start)]]
         /\ elapsed' = 0
         /\ selectionOffsetRef' = msToSeconds(t.sel.start)
         /\ sourceDurationRef' = msToSeconds(t.sel.end - t.sel.start)
         /\ sourceRef' = id
         /\ isPlaying' = TRUE
         /\ rafPending' = [rafPending EXCEPT ![rid] = IF t.cp THEN "T" ELSE "F"]
         /\ rafRef' = rid
  /\ selection' = t.sel

\* a start that records the offset and the clock but not the duration
StartSourceCore_KeepsDuration(t) ==
  /\ FreeSrcIds # {}
  /\ FreeRafIds # {}
  /\ LET id == PickMin(FreeSrcIds)
         rid == PickMin(FreeRafIds)
     IN  /\ sources' = [Superseded EXCEPT ![id] =
               [status |-> IF ctxState = "running" THEN "playing" ELSE "inert", cp |-> t.cp,
                offset |-> msToSeconds(t.sel.start),
                durationSec |-> msToSeconds(t.sel.end - t.sel.start)]]
         /\ elapsed' = 0
         /\ selectionOffsetRef' = msToSeconds(t.sel.start)
         /\ sourceDurationRef' = sourceDurationRef
         /\ sourceRef' = id
         /\ isPlaying' = TRUE
         /\ rafPending' = [rafPending EXCEPT ![rid] = IF t.cp THEN "T" ELSE "F"]
         /\ rafRef' = rid
  /\ selection' = selection

\* createBufferSource / start(0, offset, durationSec) / onended / startRaf:
\* the tail shared by togglePlayPause and playSelection; the selection state
\* is not written
StartSourceCore(t) ==
  /\ FreeSrcIds # {}
  /\ FreeRafIds # {}
  /\ LET id == PickMin(FreeSrcIds)
         rid == PickMin(FreeRafIds)
     IN  /\ sources' = [Superseded EXCEPT ![id] =
               [status |-> IF ctxState = "running" THEN "playing" ELSE "inert", cp |-> t.cp,
                offset |-> msToSeconds(t.sel.start),
                durationSec |-> msToSeconds(t.sel.end - t.sel.start)]]
         /\ elapsed' = 0
         /\ selectionOffsetRef' = msToSeconds(t.sel.start)
         /\ sourceDurationRef' = msToSeconds(t.sel.end - t.sel.start)
         /\ sourceRef' = id
         /\ isPlaying' = TRUE
         /\ rafPending' = [rafPending EXCEPT ![rid] = IF t.cp THEN "T" ELSE "F"]
         /\ rafRef' = rid
  /\ selection' = selection

\* ------------------------------------------------------------- actions
\* loadAudio effect: the raw bytes arrive
FetchOk ==
  /\ UNCHANGED probe
  /\ UNCHANGED exported
  /\ UNCHANGED userOps
  /\ mounted /\ Idle
  /\ fetching.load
  /\ fetching' = [fetching EXCEPT !.load = FALSE]
  /\ audioLoaded' = TRUE
  /\ last' = [op |-> "fetchOk"]
  /\ UNCHANGED << mounted, isPlaying, isPausing, selection, duration, audioError, isDecoding,
                  ctxState, audioBufferRef, decodable, engineVars, rafVars, timerVars, tasks >>

\* loadAudio effect: the fetch fails or answers with an error status
FetchFail ==
  /\ UNCHANGED probe
  /\ mounted /\ Idle
  /\ fetching.load
  /\ fetching' = [fetching EXCEPT !.load = FALSE]
  /\ audioError' = TRUE
  /\ last' = [op |-> "fetchFail"]
  /\ UNCHANGED << mounted, isPlaying, isPausing, selection, duration, audioLoaded, isDecoding,
                  ctxState, audioBufferRef, decodable, engineVars, rafVars, timerVars, tasks,
                  userOps, exported >>

\* Retry button of the error alert, shown while audioError is set
retryLoadAudio ==
  /\ UNCHANGED probe
  /\ mounted /\ Idle
  /\ userOps < MaxUserOps
  /\ userOps' = userOps + 1
  /\ audioError
  /\ fetching.retry < MaxFetches
  /\ audioError' = FALSE
  /\ audioLoaded' = FALSE
  /\ fetching' = [fetching EXCEPT !.retry = @ + 1]
  /\ last' = [op |-> "retryLoadAudio"]
  /\ UNCHANGED << mounted, isPlaying, isPausing, selection, duration, isDecoding,
                  ctxState, audioBufferRef, decodable, engineVars, rafVars, timerVars, tasks,
                  exported >>

\* retryLoadAudio's fetch delivers the bytes
RetryFetchOk ==
  /\ UNCHANGED probe
  /\ mounted /\ Idle
  /\ fetching.retry > 0
  /\ fetching' = [fetching EXCEPT !.retry = @ - 1]
  /\ audioLoaded' = TRUE
  /\ audioError' = FALSE
  /\ last' = [op |-> "retryFetchOk"]
  /\ UNCHANGED << mounted, isPlaying, isPausing, selection, duration, isDecoding,
                  ctxState, audioBufferRef, decodable, engineVars, rafVars, timerVars, tasks,
                  userOps, exported >>

\* retryLoadAudio's fetch fails
RetryFetchFail ==
  /\ UNCHANGED probe
  /\ mounted /\ Idle
  /\ fetching.retry > 0
  /\ fetching' = [fetching EXCEPT !.retry = @ - 1]
  /\ audioError' = TRUE
  /\ last' = [op |-> "retryFetchFail"]
  /\ UNCHANGED << mounted, isPlaying, isPausing, selection, duration, audioLoaded, isDecoding,
                  ctxState, audioBufferRef, decodable, engineVars, rafVars, timerVars, tasks,
                  userOps, exported >>

\* a Play button that does not look at audioError
PlayButtonEnabled_IgnoresError == audioLoaded /\ selection # NoSel /\ ~isDecoding

\* the Play/Pause button is enabled
PlayButtonEnabled == audioLoaded /\ selection # NoSel /\ ~audioError /\ ~isDecoding

\* Play/Pause button
togglePlayPause ==
  /\ UNCHANGED probe
  /\ UNCHANGED fetching
  /\ UNCHANGED exported
  /\ mounted /\ Idle
  /\ userOps < MaxUserOps
  /\ userOps' = userOps + 1
  /\ PlayButtonEnabled
  /\ IF isPlaying \/ isPausing
       THEN /\ stopCurrentSource
            /\ last' = [op |-> "toggleStop"]
            /\ UNCHANGED << selection, duration, audioLoaded, audioError, isDecoding,
                            ctxState, audioBufferRef, decodable, elapsed, selectionOffsetRef,
                            sourceDurationRef, tasks, mounted >>
       ELSE /\ timers' = ClearTimeoutTimers
            /\ timeoutRef' = 0
            /\ audioError' = FALSE
            /\ BeginStart("toggle", selection, isPlaying)
            /\ last' = [op |-> "togglePlay"]
            /\ UNCHANGED << isPlaying, isPausing, selection, duration, audioLoaded, isDecoding,
                            audioBufferRef, decodable, engineVars, rafVars, mounted >>

\* the start-time -/+ buttons and their disabled conditions
StartButtonEnabled(delta) ==
  /\ selection # NoSel
  /\ IF delta < 0
       THEN ~(msToSeconds(selection.start) <= 0)
       ELSE ~(msToSeconds(selection.start) >= msToSeconds(selection.end) - MinWidthSec)

\* a new selection object built without the old one's remaining fields
adjustStartTimeResult_NoSpread(sel, delta) ==
  LET newStartTime == Max(0, Min(msToSeconds(sel.start) + delta, msToSeconds(sel.end) - MinWidthSec))
  IN  [start |-> secondsToMs(newStartTime), end |-> sel.end, text |-> << >>]

adjustStartTimeResult(sel, delta) ==
  LET currentStartSeconds == msToSeconds(sel.start)
      currentEndSeconds == msToSeconds(sel.end)
      newStartTime == Max(0, Min(currentStartSeconds + delta, currentEndSeconds - MinWidthSec))
  IN  [sel EXCEPT !.start = secondsToMs(newStartTime)]

adjustStartTime ==
  /\ UNCHANGED probe
  /\ UNCHANGED fetching
  /\ UNCHANGED exported
  /\ mounted /\ Idle
  /\ userOps < MaxUserOps
  /\ userOps' = userOps + 1
  /\ \E delta \in {-ButtonDeltaSec, ButtonDeltaSec} :
       /\ StartButtonEnabled(delta)
       /\ selection' = adjustStartTimeResult(selection, delta)
  /\ last' = [op |-> "adjustStartTime"]
  /\ UNCHANGED << mounted, isPlaying, isPausing, duration, audioLoaded, audioError, isDecoding,
                  ctxState, audioBufferRef, decodable, engineVars, rafVars, timerVars, tasks >>

\* the end-time -/+ buttons and their disabled conditions
EndButtonEnabled(delta) ==
  /\ selection # NoSel
  /\ IF delta < 0
       THEN ~(msToSeconds(selection.end) <= msToSeconds(selection.start) + MinWidthSec)
       ELSE ~(msToSeconds(selection.end) >= duration)

adjustEndTimeResult(sel, delta, dur) ==
  LET currentStartSeconds == msToSeconds(sel.start)
      currentEndSeconds == msToSeconds(sel.end)
      newEndTime == Max(currentStartSeconds + MinWidthSec, Min(currentEndSeconds + delta, dur))
  IN  [sel EXCEPT !.end = secondsToMs(newEndTime)]

adjustEndTime ==
  /\ UNCHANGED probe
  /\ UNCHANGED fetching
  /\ UNCHANGED exported
  /\ mounted /\ Idle
  /\ userOps < MaxUserOps
  /\ userOps' = userOps + 1
  /\ \E delta \in {-ButtonDeltaSec, ButtonDeltaSec} :
       /\ EndButtonEnabled(delta)
       /\ selection' = adjustEndTimeResult(selection, delta, duration)
  /\ last' = [op |-> "adjustEndTime"]
  /\ UNCHANGED << mounted, isPlaying, isPausing, duration, audioLoaded, audioError, isDecoding,
                  ctxState, audioBufferRef, decodable, engineVars, rafVars, timerVars, tasks >>

\* the selection handleWordClick stores for word i of a word sequence
wordSelectionOf(words, i) ==
  [start |-> words[i].start, end |-> words[i].end, text |-> words[i].text]

wordSelection(i) == wordSelectionOf(Words, i)

handleWordClick ==
  /\ UNCHANGED probe
  /\ UNCHANGED fetching
  /\ UNCHANGED exported
  /\ mounted /\ Idle
  /\ userOps < MaxUserOps
  /\ userOps' = userOps + 1
  /\ \E i \in 1..Len(Words) :
       /\ selection' = wordSelection(i)
       /\ IF isPlaying
            THEN /\ playSelectionSync(wordSelection(i), isPlaying, timers)
                 /\ UNCHANGED << elapsed, selectionOffsetRef, sourceDurationRef >>
            ELSE UNCHANGED << isPlaying, isPausing, audioError, isDecoding, ctxState,
                              engineVars, rafVars, timerVars, tasks >>
  /\ last' = [op |-> IF isPlaying THEN "wordClickPlaying" ELSE "wordClick"]
  /\ UNCHANGED << mounted, duration, audioLoaded, audioBufferRef, decodable >>

\* languages written without spaces between words
noSpaceLanguages == {"ja", "zh", "ko", "th", "lo", "km", "my"}

\* languageCode?.toLowerCase() for the codes tried
toLowerCase(code) == IF code = "JA" THEN "ja" ELSE IF code = "EN" THEN "en" ELSE code

shouldUseWordSpacing(languageCode) == toLowerCase(languageCode) \notin noSpaceLanguages

getWordSeparator(languageCode) == IF shouldUseWordSpacing(languageCode) THEN << " " >> ELSE << >>

wordSeparator == getWordSeparator(language_code)

\* words.slice(minIndex, maxIndex + 1).map((word) => word.text).join(separator)
RECURSIVE joinTexts(_, _, _, _)
joinTexts(words, minIndex, maxIndex, separator) ==
  IF minIndex > maxIndex THEN << >>
  ELSE IF minIndex = maxIndex THEN words[minIndex].text
  ELSE words[minIndex].text \o separator \o joinTexts(words, minIndex + 1, maxIndex, separator)

\* a selection computed without putting the two indices in order
rangeSelectionOf_Unordered(words, separator, i, j) ==
  [start |-> words[i].start, end |-> words[j].end, text |-> joinTexts(words, i, j, separator)]

\* the selection processWordSelection computes from two word indices
rangeSelectionOf(words, separator, i, j) ==
  LET minIndex == Min(i, j)
      maxIndex == Max(i, j)
  IN  [start |-> words[minIndex].start, end |-> words[maxIndex].end,
       text |-> joinTexts(words, minIndex, maxIndex, separator)]

\* drag-select over the words i..j (either order)
rangeSelection(i, j) == rangeSelectionOf(Words, wordSeparator, i, j)

processWordSelection ==
  /\ UNCHANGED probe
  /\ UNCHANGED fetching
  /\ UNCHANGED exported
  /\ mounted /\ Idle
  /\ userOps < MaxUserOps
  /\ userOps' = userOps + 1
  /\ \E i \in 1..Len(Words), j \in 1..Len(Words) :
       selection' = rangeSelection(i, j)
  /\ IF isPlaying
       THEN /\ stopCurrentSource
            /\ UNCHANGED << elapsed, selectionOffsetRef, sourceDurationRef >>
       ELSE UNCHANGED << isPlaying, isPausing, engineVars, rafVars, timerVars >>
  /\ last' = [op |-> IF isPlaying THEN "dragSelectPlaying" ELSE "dragSelect"]
  /\ UNCHANGED << mounted, duration, audioLoaded, audioError, isDecoding, ctxState,
                  audioBufferRef, decodable, tasks >>

\* a mouse click on word i when the browser has put a caret in the word:
\* mouseup on the transcript runs handleWordSelection, which finds the word at
\* both ends of the range and calls processWordSelection on it; the click that
\* follows runs handleWordClick in the re-rendered component, where isPlaying
\* is false, so it stores the same selection and starts nothing
wordMouseClick ==
  /\ UNCHANGED probe
  /\ UNCHANGED fetching
  /\ UNCHANGED exported
  /\ mounted /\ Idle
  /\ userOps < MaxUserOps
  /\ userOps' = userOps + 1
  /\ \E i \in 1..Len(Words) :
       /\ rangeSelection(i, i) = wordSelection(i)
       /\ selection' = wordSelection(i)
  /\ IF isPlaying
       THEN /\ stopCurrentSource
            /\ UNCHANGED << elapsed, selectionOffsetRef, sourceDurationRef >>
       ELSE UNCHANGED << isPlaying, isPausing, engineVars, rafVars, timerVars >>
  /\ last' = [op |-> IF isPlaying THEN "mouseClickPlaying" ELSE "mouseClick"]
  /\ UNCHANGED << mounted, duration, audioLoaded, audioError, isDecoding, ctxState,
                  audioBufferRef, decodable, tasks >>

\* continuation of a start once the context is available:
\* decode on first use, otherwise start the one-shot
AfterCtx(i) ==
  LET t == tasks[i] IN
  IF audioBufferRef
    THEN /\ StartSourceCore(t)
         /\ tasks' = RemoveAt(tasks, i)
         /\ last' = [op |-> "started"]
         /\ UNCHANGED << mounted, isPausing, duration, audioLoaded, audioError,
                         isDecoding, ctxState, audioBufferRef, decodable, timerVars >>
    ELSE /\ isDecoding' = TRUE
         /\ tasks' = [tasks EXCEPT ![i].pc = "decode"]
         /\ last' = [op |-> "decodeBegin"]
         /\ UNCHANGED << mounted, isPlaying, isPausing, selection, duration, audioLoaded,
                         audioError, ctxState, audioBufferRef, decodable, engineVars, rafVars, timerVars >>

CtxReady ==
  /\ UNCHANGED probe
  /\ UNCHANGED fetching
  /\ UNCHANGED exported
  /\ UNCHANGED userOps
  /\ \E i \in 1..Len(tasks) :
       /\ tasks[i].pc = "ctxReady"
       /\ IF audioCtxRefSet
            THEN AfterCtx(i)
            ELSE /\ tasks' = RemoveAt(tasks, i)
                 /\ last' = [op |-> "startAbandoned"]
                 /\ UNCHANGED << mounted, reactVars, ctxState, audioBufferRef, decodable, engineVars,
                                 rafVars, timerVars >>

AwaitingResume(t) == t.pc = "resume"
NotAwaitingResume(t) == t.pc # "resume"

\* audioCtxRef.current.resume() resolves: the context runs and every start
\* that awaits it continues
ResumeOk ==
  /\ UNCHANGED probe
  /\ UNCHANGED fetching
  /\ UNCHANGED exported
  /\ UNCHANGED userOps
  /\ Idle
  /\ \E i \in 1..Len(tasks) : AwaitingResume(tasks[i])
  /\ ctxState' = IF ctxState = "suspended" THEN "running" ELSE ctxState
  /\ tasks' = [i \in 1..Len(tasks) |->
                 IF AwaitingResume(tasks[i]) THEN [tasks[i] EXCEPT !.pc = "ctxReady"] ELSE tasks[i]]
  /\ last' = [op |-> "resumeOk"]
  /\ UNCHANGED << mounted, reactVars, audioBufferRef, decodable, engineVars, rafVars, timerVars >>

\* audioCtxRef.current.resume() rejects: getOrCreateAudioContext reports the
\* error and returns null, and the start gives up
ResumeFail ==
  /\ UNCHANGED probe
  /\ UNCHANGED fetching
  /\ UNCHANGED exported
  /\ UNCHANGED userOps
  /\ Idle
  /\ \E i \in 1..Len(tasks) : AwaitingResume(tasks[i])
  /\ ctxState = "suspended"
  /\ handlePlayError
  /\ tasks' = SelectSeq(tasks, NotAwaitingResume)
  /\ last' = [op |-> "resumeFail"]
  /\ UNCHANGED << mounted, selection, duration, audioLoaded, ctxState, audioBufferRef, decodable,
                  engineVars, rafVars, timerVars >>

\* decodeAudioData resolves
DecodeOk ==
  /\ UNCHANGED probe
  /\ UNCHANGED fetching
  /\ UNCHANGED exported
  /\ UNCHANGED userOps
  /\ \E i \in 1..Len(tasks) :
       /\ Idle
       /\ tasks[i].pc = "decode"
       /\ decodable # "no"
       /\ decodable' = "yes"
       /\ isDecoding' = FALSE
       /\ audioBufferRef' = TRUE
       /\ duration' = msToSeconds(BufferDurationMs)
       /\ StartSourceCore(tasks[i])
       /\ tasks' = RemoveAt(tasks, i)
       /\ last' = [op |-> "started"]
       /\ UNCHANGED << mounted, isPausing, audioLoaded, audioError, ctxState, timerVars >>

\* decodeAudioData rejects: decodeAudioBuffer throws, the caller's catch reports
DecodeFail ==
  /\ UNCHANGED probe
  /\ UNCHANGED fetching
  /\ UNCHANGED exported
  /\ UNCHANGED userOps
  /\ \E i \in 1..Len(tasks) :
       /\ Idle
       /\ tasks[i].pc = "decode"
       /\ decodable # "yes"
       /\ decodable' = "no"
       /\ handlePlayError
       /\ tasks' = RemoveAt(tasks, i)
       /\ last' = [op |-> "decodeFail"]
       /\ UNCHANGED << mounted, selection, duration, audioLoaded, ctxState, audioBufferRef,
                       engineVars, rafVars, timerVars >>

\* handleEnded's test for a one-shot that ended before the current selection end
needsExtension_Never(currentSelection, sourceEndedAt) == FALSE

needsExtension(currentSelection, sourceEndedAt) ==
  currentSelection # NoSel /\ sourceEndedAt < msToSeconds(currentSelection.end) - EndToleranceSec

\* handleEnded, run by the onended handler of source s (closure flag cp)
handleEnded(s, cp) ==
  LET currentSelection == selection
      sourceEndedAt == selectionOffsetRef + sourceDurationRef
      currentSelectionEnd == IF currentSelection # NoSel THEN msToSeconds(currentSelection.end) ELSE 0
      rafAfterCancel == CancelRafPending
      srcAfter == [sources EXCEPT ![s] = [status |-> "free", cp |-> FALSE, offset |-> 0, durationSec |-> 0]]
  IN
  IF needsExtension(currentSelection, sourceEndedAt)
    THEN \* play the extended portion
      IF audioCtxRefSet /\ audioBufferRef
        THEN LET id == PickMin({ i \in SrcIds : srcAfter[i].status = "free" })
                 freeRaf == { i \in RafIds : rafAfterCancel[i] = "none" }
                 rid == PickMin(freeRaf)
                 extensionDuration == currentSelectionEnd - sourceEndedAt
             IN  /\ freeRaf # {}
                 /\ sources' = [srcAfter EXCEPT ![id] =
                       [status |-> IF ctxState = "running" THEN "playing" ELSE "inert", cp |-> cp,
                        offset |-> sourceEndedAt, durationSec |-> extensionDuration]]
                 /\ elapsed' = 0
                 /\ selectionOffsetRef' = sourceEndedAt
                 /\ sourceDurationRef' = extensionDuration
                 /\ sourceRef' = id
                 /\ isPlaying' = TRUE
                 /\ rafPending' = [rafAfterCancel EXCEPT ![rid] = IF cp THEN "T" ELSE "F"]
                 /\ rafRef' = rid
                 /\ last' = [op |-> "endedExtend"]
                 /\ UNCHANGED << isPausing, timerVars >>
        ELSE /\ sources' = srcAfter
             /\ sourceRef' = 0
             /\ rafPending' = rafAfterCancel
             /\ rafRef' = 0
             /\ last' = [op |-> "endedNoEngine"]
             /\ UNCHANGED << isPlaying, isPausing, elapsed, selectionOffsetRef,
                             sourceDurationRef, timerVars >>
    ELSE IF currentSelection # NoSel
      THEN \* isLooping: pause, then restart
           /\ FreeTimerIds # {}
           /\ LET tid == PickMin(FreeTimerIds)
              IN  /\ timers' = [timers EXCEPT ![tid] =
                        [sel |-> currentSelection, cp |-> cp, delay |-> loopPauseDuration]]
                  /\ timeoutRef' = tid
           /\ isPausing' = TRUE
           /\ sources' = srcAfter
           /\ sourceRef' = 0
           /\ rafPending' = rafAfterCancel
           /\ rafRef' = 0
           /\ last' = [op |-> "endedLoop"]
           /\ UNCHANGED << isPlaying, elapsed, selectionOffsetRef, sourceDurationRef >>
      ELSE /\ isPlaying' = FALSE
           /\ isPausing' = FALSE
           /\ sources' = srcAfter
           /\ sourceRef' = 0
           /\ rafPending' = rafAfterCancel
           /\ rafRef' = 0
           /\ last' = [op |-> "endedStop"]
           /\ UNCHANGED << elapsed, selectionOffsetRef, sourceDurationRef, timerVars >>

\* an onended handler that acts for whichever source reports its end
onended_AnySource(s) ==
  /\ handleEnded(s, sources[s].cp)
  /\ sources[s].status = "ended"

\* the onended handler installed on every source: acts only for the current source
onended(s) ==
  IF sourceRef = s
    THEN handleEnded(s, sources[s].cp)
    ELSE /\ sources' = [sources EXCEPT ![s] = [status |-> "free", cp |-> FALSE, offset |-> 0, durationSec |-> 0]]
         /\ last' = [op |-> "endedStale"]
         /\ UNCHANGED << isPlaying, isPausing, sourceRef, elapsed, selectionOffsetRef,
                         sourceDurationRef, rafVars, timerVars >>

\* the engine delivers the ended event of a source that finished or was stopped
OnEnded ==
  /\ UNCHANGED probe
  /\ UNCHANGED fetching
  /\ UNCHANGED exported
  /\ UNCHANGED userOps
  /\ Idle
  /\ \E s \in SrcIds :
       /\ sources[s].status = "ended"
       /\ onended(s)
  /\ UNCHANGED << mounted, selection, duration, audioLoaded, audioError, isDecoding,
                  ctxState, audioBufferRef, decodable, tasks >>

\* the loop-restart timer fires (callback set up in handleEnded)
TimerFire ==
  /\ UNCHANGED probe
  /\ UNCHANGED fetching
  /\ UNCHANGED exported
  /\ UNCHANGED userOps
  /\ Idle
  /\ \E tid \in TimerIds :
       /\ timers[tid] # NoTimer
       /\ LET tm == timers[tid]
              fired == [timers EXCEPT ![tid] = NoTimer]
          IN  IF tm.sel # NoSel /\ audioCtxRefSet /\ audioBufferRef
                THEN /\ playSelectionSync(tm.sel, tm.cp, fired)
                     /\ last' = [op |-> "timerRestart"]
                     /\ UNCHANGED << elapsed, selectionOffsetRef, sourceDurationRef >>
                ELSE /\ isPausing' = FALSE
                     /\ timers' = fired
                     /\ last' = [op |-> "timerNoEngine"]
                     /\ UNCHANGED << isPlaying, audioError, isDecoding, ctxState, tasks,
                                     engineVars, rafVars, timeoutRef >>
  /\ UNCHANGED << mounted, selection, duration, audioLoaded, audioBufferRef, decodable >>

\* startRaf's tick, for the pending animation-frame request r
RafTick ==
  /\ UNCHANGED probe
  /\ UNCHANGED fetching
  /\ UNCHANGED exported
  /\ UNCHANGED userOps
  /\ Idle
  /\ \E r \in RafIds :
       /\ rafPending[r] # "none"
       /\ LET fired == [rafPending EXCEPT ![r] = "none"]
              currentSec == selectionOffsetRef + elapsed
          IN  IF rafPending[r] = "F" \/ ~audioCtxRefSet
                THEN \* !isPlaying || !selection || !audioCtxRef.current
                     /\ rafPending' = fired
                     /\ rafRef' = 0
                     /\ last' = [op |-> "rafDead"]
                     /\ UNCHANGED sources
                ELSE IF selection # NoSel /\ currentSec >= msToSeconds(selection.end)
                  THEN \* passed the current selection end: stop early
                       /\ sources' = StopSources
                       /\ rafPending' = IF rafRef = 0 THEN fired ELSE [fired EXCEPT ![rafRef] = "none"]
                       /\ rafRef' = 0
                       /\ last' = [op |-> "rafStop"]
                  ELSE /\ rafPending' = [fired EXCEPT ![r] = "T"]
                       /\ rafRef' = r
                       /\ last' = [op |-> "rafTick"]
                       /\ UNCHANGED sources
  /\ UNCHANGED << mounted, reactVars, ctxState, audioBufferRef, decodable, sourceRef, elapsed,
                  selectionOffsetRef, sourceDurationRef, timerVars, tasks >>

\* where the current one-shot falls silent by itself: its requested duration,
\* or the end of the buffer when that comes first
NaturalEndElapsed ==
  Max(0, Min(sourceDurationRef, msToSeconds(BufferDurationMs) - selectionOffsetRef))

CurrentPlaying == sourceRef # 0 /\ sources[sourceRef].status = "playing"

\* the engine clock advances while the current one-shot sounds; reaching the
\* end of its range queues its ended event
Advance ==
  /\ UNCHANGED probe
  /\ UNCHANGED fetching
  /\ UNCHANGED exported
  /\ UNCHANGED userOps
  /\ CurrentPlaying
  /\ LET e == Min(elapsed + TickSec, NaturalEndElapsed)
     IN  /\ elapsed' = e
         /\ sources' = IF e >= NaturalEndElapsed
                         THEN [sources EXCEPT ![sourceRef].status = "ended"]
                         ELSE sources
  /\ last' = [op |-> "advance"]
  /\ UNCHANGED << mounted, reactVars, ctxState, audioBufferRef, decodable, sourceRef,
                  selectionOffsetRef, sourceDurationRef, rafVars, timerVars, tasks >>

\* a one-shot that is no longer the current source plays out to its end
SupersededEnds ==
  /\ UNCHANGED probe
  /\ UNCHANGED fetching
  /\ UNCHANGED exported
  /\ UNCHANGED userOps
  /\ \E s \in SrcIds :
       /\ s # sourceRef
       /\ sources[s].status = "playing"
       /\ sources' = [sources EXCEPT ![s].status = "ended"]
  /\ last' = [op |-> "supersededEnds"]
  /\ UNCHANGED << mounted, reactVars, ctxState, audioBufferRef, decodable, sourceRef, elapsed,
                  selectionOffsetRef, sourceDurationRef, rafVars, timerVars, tasks >>

\* cleanup effect on unmount
Unmount ==
  /\ UNCHANGED probe
  /\ UNCHANGED fetching
  /\ UNCHANGED exported
  /\ UNCHANGED userOps
  /\ mounted /\ Idle
  /\ mounted' = FALSE
  /\ rafPending' = CancelRafPending
  /\ rafRef' = 0
  /\ timers' = ClearTimeoutTimers
  /\ timeoutRef' = 0
  /\ isPlaying' = FALSE
  /\ isPausing' = FALSE
  /\ sourceRef' = 0
  \* stopCurrentSource stops the current source; close() silences whatever else sounds
  /\ sources' = [i \in SrcIds |->
       IF audioCtxRefSet /\ StopAndClearSources[i].status = "playing"
         THEN [StopAndClearSources[i] EXCEPT !.status = "inert"]
         ELSE StopAndClearSources[i]]
  /\ ctxState' = IF audioCtxRefSet THEN "closed" ELSE ctxState
  /\ audioBufferRef' = FALSE
  /\ last' = [op |-> "unmount"]
  /\ UNCHANGED << selection, duration, audioLoaded, audioError, isDecoding, elapsed,
                  selectionOffsetRef, sourceDurationRef, tasks, decodable >>

\* ---------------------------------------------------------------- export
\* a float sample is a multiple of 1/SampleDen, or NaN
Sample(v) == [nan |-> FALSE, v |-> v]
NaN == [nan |-> TRUE, v |-> 0]

\* decoded audio: sample rates, channel counts and contents tried; at these
\* rates the buffer holds a whole number of frames
ExportSampleRates == {40, 200}
ExportChannels == {1, 2}
SampleValues ==
  << -((3 * SampleDen) \div 2), -SampleDen, -1, 0, 1, SampleDen \div 2, SampleDen, 2 * SampleDen >>

\* audioBuffer.length
bufferLength(sampleRate) == (BufferDurationMs * sampleRate) \div 1000

\* audioBuffer.getChannelData(channel)[k]; a typed-array read outside the array
\* gives undefined, which a Float32Array stores as NaN
sourceData(seed, channel, sampleRate, k) ==
  IF 0 <= k /\ k < bufferLength(sampleRate)
    THEN Sample(SampleValues[((k + seed + 3 * channel) % Len(SampleValues)) + 1])
    ELSE NaN

CeilDiv(a, b) == -((-a) \div b)
TruncDiv(a, b) == IF a >= 0 THEN a \div b ELSE -((-a) \div b)

\* Math.floor((selection.start / 1000) * sampleRate)
startSampleOf(sel, sampleRate) == (sel.start * sampleRate) \div 1000
\* Math.ceil((selection.end / 1000) * sampleRate)
endSampleOf(sel, sampleRate) == CeilDiv(sel.end * sampleRate, 1000)

\* the copy loop of handleDownload: newBuffer's channel data
copySegment(sel, seed, numberOfChannels, sampleRate) ==
  LET startSample == startSampleOf(sel, sampleRate)
      lengthInSamples == endSampleOf(sel, sampleRate) - startSample
  IN  [channel \in 1..numberOfChannels |->
         [i \in 1..lengthInSamples |->
            sourceData(seed, channel, sampleRate, startSample + (i - 1))]]

\* Math.max(-1, Math.min(1, x)); NaN passes through
clampSample(x) == IF x.nan THEN x ELSE Sample(Max(-SampleDen, Min(SampleDen, x.v)))

\* sample < 0 ? sample * 0x8000 : sample * 0x7FFF (numerator over SampleDen)
scaleSample(x) ==
  IF x.nan THEN x
  ELSE IF x.v < 0 THEN Sample(x.v * NegativeScale) ELSE Sample(x.v * PositiveScale)

\* DataView.setInt16: NaN is 0, the fraction is dropped, the rest wraps to 16 bits
ToInt16(x) ==
  IF x.nan THEN 0
  ELSE ((TruncDiv(x.v, SampleDen) - Int16Min) % (Int16Max - Int16Min + 1)) + Int16Min

\* a sample loop that scales without clamping first
quantizeSample_NoClamp(x) == ToInt16(scaleSample(x))

\* the sample loop of audioBufferToWav, for one sample
quantizeSample(x) == ToInt16(scaleSample(clampSample(x)))

\* view.setUint16 / view.setUint32 with littleEndian = true, appended at pos:
\* the low `size` bytes of data, least significant first
setUint(bytes, data, size) ==
  bytes \o [k \in 1..size |-> (data \div (256 ^ (k - 1))) % 256]

\* length = buffer.length * numberOfChannels * 2 + 44
wavLength(frames, numberOfChannels) == frames * numberOfChannels * 2 + 44

\* a header whose byte rate leaves out the channel count
wavHeader_MonoByteRate(frames, numberOfChannels, sampleRate) ==
  LET length == wavLength(frames, numberOfChannels)
      h1  == setUint(<< >>, 1179011410, 4)
      h2  == setUint(h1, length - 8, 4)
      h3  == setUint(h2, 1163280727, 4)
      h4  == setUint(h3, 544501094, 4)
      h5  == setUint(h4, 16, 4)
      h6  == setUint(h5, 1, 2)
      h7  == setUint(h6, numberOfChannels, 2)
      h8  == setUint(h7, sampleRate, 4)
      h9  == setUint(h8, sampleRate * 2, 4)
      h10 == setUint(h9, numberOfChannels * 2, 2)
      h11 == setUint(h10, 16, 2)
      h12 == setUint(h11, 1635017060, 4)
  IN  setUint(h12, length - Len(h12) - 4, 4)

\* the header audioBufferToWav writes, byte by byte; pos is the number of
\* bytes written so far
wavHeader(frames, numberOfChannels, sampleRate) ==
  LET length == wavLength(frames, numberOfChannels)
      h1  == setUint(<< >>, 1179011410, 4)                       \* 0x46464952 "RIFF"
      h2  == setUint(h1, length - 8, 4)                          \* file length - 8
      h3  == setUint(h2, 1163280727, 4)                          \* 0x45564157 "WAVE"
      h4  == setUint(h3, 544501094, 4)                           \* 0x20746d66 "fmt "
      h5  == setUint(h4, 16, 4)                                  \* subchunk size
      h6  == setUint(h5, 1, 2)                                   \* PCM format
      h7  == setUint(h6, numberOfChannels, 2)
      h8  == setUint(h7, sampleRate, 4)
      h9  == setUint(h8, sampleRate * 2 * numberOfChannels, 4)   \* byte rate
      h10 == setUint(h9, numberOfChannels * 2, 2)                \* block align
      h11 == setUint(h10, 16, 2)                                 \* bits per sample
      h12 == setUint(h11, 1635017060, 4)                         \* 0x61746164 "data"
  IN  setUint(h12, length - Len(h12) - 4, 4)                     \* length - pos - 4

\* the interleaved 16-bit data of audioBufferToWav
audioBufferToWav(segment, numberOfChannels) ==
  LET frames == IF numberOfChannels = 0 THEN 0 ELSE Len(segment[1])
  IN  [k \in 1..(frames * numberOfChannels) |->
         quantizeSample(segment[((k - 1) % numberOfChannels) + 1][((k - 1) \div numberOfChannels) + 1])]

\* the Download Selection button is enabled
DownloadButtonEnabled == selection # NoSel /\ audioLoaded /\ ~audioError

\* Download Selection button
handleDownload ==
  /\ UNCHANGED probe
  /\ UNCHANGED fetching
  /\ mounted /\ Idle
  /\ userOps < MaxUserOps
  /\ userOps' = userOps + 1
  /\ DownloadButtonEnabled
  /\ IF selection = NoSel \/ ~audioBufferRef
       THEN exported' = NoExport
       ELSE \E sampleRate \in ExportSampleRates, numberOfChannels \in ExportChannels,
               seed \in 0..MaxSeed :
              LET newBuffer == copySegment(selection, seed, numberOfChannels, sampleRate)
              IN  exported' =
                    [toast |-> "Download Complete", file |-> TRUE,
                     sampleRate |-> sampleRate, numberOfChannels |-> numberOfChannels,
                     startSample |-> startSampleOf(selection, sampleRate),
                     seed |-> seed,
                     segment |-> newBuffer,
                     length |-> wavLength(Len(newBuffer[1]), numberOfChannels),
                     header |-> wavHeader(Len(newBuffer[1]), numberOfChannels, sampleRate),
                     wav |-> audioBufferToWav(newBuffer, numberOfChannels)]
  /\ last' = [op |-> "download"]
  /\ UNCHANGED << mounted, reactVars, ctxState, audioBufferRef, decodable, engineVars, rafVars,
                  timerVars, tasks >>

Next ==
  \/ FetchOk
  \/ FetchFail
  \/ retryLoadAudio
  \/ RetryFetchOk
  \/ RetryFetchFail
  \/ togglePlayPause
  \/ adjustStartTime
  \/ adjustEndTime
  \/ handleWordClick
  \/ processWordSelection
  \/ wordMouseClick
  \/ CtxReady
  \/ ResumeOk
  \/ ResumeFail
  \/ DecodeOk
  \/ DecodeFail
  \/ OnEnded
  \/ TimerFire
  \/ RafTick
  \/ Advance
  \/ SupersededEnds
  \/ Unmount

Spec == Init /\ [][Next]_vars

\* ------------------------------------------------- selecting and exporting
\* the component at rest with the audio fetched: either nothing was played yet
\* (no decoded buffer, no selection), or a word was played and stopped
InitExport ==
  /\ mounted = TRUE
  /\ isPlaying = FALSE
  /\ isPausing = FALSE
  /\ audioLoaded = TRUE
  /\ audioError = FALSE
  /\ isDecoding = FALSE
  /\ \E decoded \in BOOLEAN :
       /\ audioBufferRef = decoded
       /\ decodable = IF decoded THEN "yes" ELSE "unknown"
       /\ ctxState = IF decoded THEN "running" ELSE "none"
       /\ duration = IF decoded THEN msToSeconds(BufferDurationMs) ELSE 0
       /\ IF decoded
            THEN \E i \in 1..Len(Words) :
                   /\ selection = wordSelection(i)
                   /\ selectionOffsetRef = msToSeconds(Words[i].start)
                   /\ sourceDurationRef = msToSeconds(Words[i].end - Words[i].start)
            ELSE /\ selection = NoSel
                 /\ selectionOffsetRef = 0
                 /\ sourceDurationRef = 0
  /\ sources = [i \in SrcIds |-> [status |-> "free", cp |-> FALSE, offset |-> 0, durationSec |-> 0]]
  /\ sourceRef = 0
  /\ elapsed = 0
  /\ rafPending = [i \in RafIds |-> "none"]
  /\ rafRef = 0
  /\ timers = [i \in TimerIds |-> NoTimer]
  /\ timeoutRef = 0
  /\ tasks = << >>
  /\ userOps = 0
  /\ exported = NoExport
  /\ probe = NoProbe
  /\ fetching = [load |-> FALSE, retry |-> 0]
  /\ last = [op |-> "init"]

NextExport ==
  \/ handleWordClick
  \/ processWordSelection
  \/ wordMouseClick
  \/ adjustStartTime
  \/ adjustEndTime
  \/ handleDownload

SpecExport == InitExport /\ [][NextExport]_vars

\* ------------------------------------------------ playing with a live feed
\* the component after a word was clicked, Play was pressed, and word i was
\* clicked while playing: the restart made by that click sounds from its
\* first instant, its feed was started by a render in which isPlaying was
\* true, and the first one-shot's end notification has been ignored
InitLive ==
  /\ mounted = TRUE
  /\ isPlaying = TRUE
  /\ isPausing = FALSE
  /\ duration = msToSeconds(BufferDurationMs)
  /\ audioLoaded = TRUE
  /\ audioError = FALSE
  /\ isDecoding = FALSE
  /\ ctxState = "running"
  /\ audioBufferRef = TRUE
  /\ decodable = "yes"
  /\ \E i \in 1..Len(Words) :
       /\ selection = wordSelection(i)
       /\ selectionOffsetRef = msToSeconds(Words[i].start)
       /\ sourceDurationRef = msToSeconds(Words[i].end - Words[i].start)
  /\ sources = [s \in SrcIds |->
       IF s = 2 THEN [status |-> "playing", cp |-> TRUE, offset |-> selectionOffsetRef,
                      durationSec |-> sourceDurationRef]
                ELSE [status |-> "free", cp |-> FALSE, offset |-> 0, durationSec |-> 0]]
  /\ sourceRef = 2
  /\ elapsed = 0
  /\ rafPending = [r \in RafIds |-> IF r = 1 THEN "T" ELSE "none"]
  /\ rafRef = 1
  /\ timers = [t \in TimerIds |-> NoTimer]
  /\ timeoutRef = 0
  /\ tasks = << >>
  /\ userOps = 0
  /\ exported = NoExport
  /\ probe = NoProbe
  /\ fetching = [load |-> FALSE, retry |-> 0]
  /\ last = [op |-> "init"]

NextLive ==
  \/ adjustEndTime
  \/ RafTick
  \/ Advance
  \/ OnEnded
  \/ TimerFire
  \/ CtxReady

SpecLive == InitLive /\ [][NextLive]_vars

(***************************************************************************)
(* Word lookup and selection building as functions of their inputs.        *)
(***************************************************************************)

\* longest word sequence tried
MaxProbeWords == 3

\* words tried: adjacent pairs sharing a boundary, an overlap, a gap, a word
\* of no length
ProbeWordSet ==
  { [start |-> 0,    end |-> 500,  text |-> << "a" >>],
    [start |-> 500,  end |-> 1000, text |-> << "b" >>],
    [start |-> 200,  end |-> 700,  text |-> << "c" >>],
    [start |-> 1200, end |-> 1500, text |-> << "d" >>],
    [start |-> 1000, end |-> 1000, text |-> << "e" >>] }

\* every sequence of at least n and at most MaxProbeWords of these words
ProbeWordSeqs(n) == UNION { [1..len -> ProbeWordSet] : len \in n..MaxProbeWords }

\* playback times tried, in microseconds: boundaries, interiors, a gap,
\* and times that are not a whole number of milliseconds
ProbeTimes == { 0, 250000, 500000, 500500, 699999, 1000000, 1000001, 1100000 }

ProbeLanguages == { "en", "EN", "ja", "JA" }

\* largest of the consecutive whole-millisecond times formatted
MaxFormatMs == 1200

\* times formatted, in ms: every time up to MaxFormatMs and larger ones
\* around whole seconds, ties and carries
FormatTimesMs == (0..MaxFormatMs) \cup {3000, 3140, 9949, 9950, 9999, 10000, 59950, 99950, 325000}

Digits == << "0", "1", "2", "3", "4", "5", "6", "7", "8", "9" >>

\* n.toFixed(0) for a whole number n >= 0, as a sequence of characters
RECURSIVE toFixed0(_)
toFixed0(n) ==
  IF n < 10 THEN << Digits[n + 1] >>
  ELSE toFixed0(n \div 10) \o << Digits[(n % 10) + 1] >>

\* a formatTime that drops the hundredths instead of rounding
formatTime_Floor(time) ==
  LET tenths == time \div 100000
  IN  IF tenths % 10 = 0
        THEN toFixed0(tenths \div 10) \o << "s" >>
        ELSE toFixed0(tenths \div 10) \o << ".", Digits[(tenths % 10) + 1], "s" >>

\* formatTime: tenths is Math.round(time * 10) (halves go up), rounded is
\* tenths / 10; time is in microseconds, so time * 10 in seconds is
\* time / 100000
formatTime(time) ==
  LET tenths == (time + 50000) \div 100000
  IN  IF tenths % 10 = 0
        THEN toFixed0(tenths \div 10) \o << "s" >>
        ELSE toFixed0(tenths \div 10) \o << ".", Digits[(tenths % 10) + 1], "s" >>

\* timeInMs >= word.start && timeInMs <= word.end, timeInMs = timeInSeconds * 1000
wordContains(word, timeInSeconds) ==
  /\ timeInSeconds >= msToSeconds(word.start)
  /\ timeInSeconds <= msToSeconds(word.end)

\* a lookup that keeps the last word containing the time
wordAt_LastMatch(words, timeInSeconds) ==
  LET hits == { k \in 1..Len(words) : wordContains(words[k], timeInSeconds) }
  IN  IF hits = {} THEN 0 ELSE CHOOSE k \in hits : \A m \in hits : m <= k

\* words.find(...) then words.indexOf(currentWord), 1-based; 0 when find
\* returns undefined
wordAt(words, timeInSeconds) ==
  LET hits == { k \in 1..Len(words) : wordContains(words[k], timeInSeconds) }
  IN  IF hits = {} THEN 0 ELSE CHOOSE k \in hits : \A m \in hits : k <= m

InitPure ==
  /\ mounted = TRUE
  /\ isPlaying = FALSE
  /\ isPausing = FALSE
  /\ selection = NoSel
  /\ duration = 0
  /\ audioLoaded = TRUE
  /\ audioError = FALSE
  /\ isDecoding = FALSE
  /\ ctxState = "none"
  /\ audioBufferRef = FALSE
  /\ decodable = "unknown"
  /\ sources = [i \in SrcIds |-> [status |-> "free", cp |-> FALSE, offset |-> 0, durationSec |-> 0]]
  /\ sourceRef = 0
  /\ elapsed = 0
  /\ selectionOffsetRef = 0
  /\ sourceDurationRef = 0
  /\ rafPending = [i \in RafIds |-> "none"]
  /\ rafRef = 0
  /\ timers = [i \in TimerIds |-> NoTimer]
  /\ timeoutRef = 0
  /\ tasks = << >>
  /\ userOps = 0
  /\ exported = NoExport
  /\ fetching = [load |-> FALSE, retry |-> 0]
  /\ last = [op |-> "init"]
  /\ \/ \E words \in ProbeWordSeqs(0), timeInSeconds \in ProbeTimes :
          probe = [fn |-> "lookup", words |-> words,
                   timeInSeconds |-> timeInSeconds, out |-> -1]
     \/ \E words \in ProbeWordSeqs(1), languageCode \in ProbeLanguages :
          \E i \in 1..Len(words), j \in 1..Len(words) :
            probe = [fn |-> "range", words |-> words, languageCode |-> languageCode,
                     i |-> i, j |-> j, out |-> NoSel]
     \/ \E words \in ProbeWordSeqs(1) :
          \E i \in 1..Len(words) :
            probe = [fn |-> "click", words |-> words, i |-> i, out |-> NoSel]
     \/ \E ms \in FormatTimesMs :
          probe = [fn |-> "format", ms |-> ms, out |-> << >>]

\* the lookup of highlightCurrentWord applied to the drawn words and time
highlightCurrentWord ==
  /\ mounted
  /\ probe.fn = "lookup"
  /\ probe.out = -1
  /\ probe' = [probe EXCEPT !.out = wordAt(probe.words, probe.timeInSeconds)]
  /\ last' = [op |-> "lookup"]
  /\ UNCHANGED << mounted, isPlaying, isPausing, selection, duration, audioLoaded,
                  audioError, isDecoding, ctxState, audioBufferRef, decodable,
                  sources, sourceRef, elapsed, selectionOffsetRef, sourceDurationRef,
                  rafPending, rafRef, timers, timeoutRef, tasks, userOps, exported,
                  fetching >>

\* processWordSelection applied to the drawn words and index pair (not playing)
processWordSelectionOf ==
  /\ probe.fn = "range"
  /\ probe.out = NoSel
  /\ LET sel == rangeSelectionOf(probe.words, getWordSeparator(probe.languageCode),
                                 probe.i, probe.j)
     IN  /\ probe' = [probe EXCEPT !.out = sel]
         /\ selection' = sel
  /\ last' = [op |-> "range"]
  /\ UNCHANGED << mounted, isPlaying, isPausing, duration, audioLoaded,
                  audioError, isDecoding, ctxState, audioBufferRef, decodable,
                  sources, sourceRef, elapsed, selectionOffsetRef, sourceDurationRef,
                  rafPending, rafRef, timers, timeoutRef, tasks, userOps, exported,
                  fetching >>

\* a time display rendered: formatTime(msToSeconds(ms))
formatTimeOf ==
  /\ probe.fn = "format"
  /\ probe.out = << >>
  /\ probe' = [probe EXCEPT !.out = formatTime(msToSeconds(probe.ms))]
  /\ last' = [op |-> "format"]
  /\ UNCHANGED << mounted, isPlaying, isPausing, selection, duration, audioLoaded,
                  audioError, isDecoding, ctxState, audioBufferRef, decodable,
                  sources, sourceRef, elapsed, selectionOffsetRef, sourceDurationRef,
                  rafPending, rafRef, timers, timeoutRef, tasks, userOps, exported,
                  fetching >>

\* handleWordClick applied to word i of the drawn words (not playing)
handleWordClickOf ==
  /\ probe.fn = "click"
  /\ probe.out = NoSel
  /\ LET sel == wordSelectionOf(probe.words, probe.i)
     IN  /\ probe' = [probe EXCEPT !.out = sel]
         /\ selection' = sel
  /\ last' = [op |-> "click"]
  /\ UNCHANGED << mounted, isPlaying, isPausing, duration, audioLoaded,
                  audioError, isDecoding, ctxState, audioBufferRef, decodable,
                  sources, sourceRef, elapsed, selectionOffsetRef, sourceDurationRef,
                  rafPending, rafRef, timers, timeoutRef, tasks, userOps, exported,
                  fetching >>

NextPure ==
  \/ highlightCurrentWord
  \/ processWordSelectionOf
  \/ handleWordClickOf
  \/ formatTimeOf

SpecPure == InitPure /\ [][NextPure]_vars

\* ------------------------------------------------------------- transcribe route
\* The state of the viewer component, which the pages and the route modelled
\* below do not touch.
ViewerVars ==
  << mounted, isPlaying, isPausing, selection, duration, audioLoaded, audioError,
     isDecoding, ctxState, audioBufferRef, decodable, sources, sourceRef, elapsed,
     selectionOffsetRef, sourceDurationRef, rafPending, rafRef, timers, timeoutRef,
     tasks, userOps, exported, fetching >>

\* a viewer that has been constructed and not used
ViewerUnused ==
  /\ mounted = TRUE
  /\ isPlaying = FALSE
  /\ isPausing = FALSE
  /\ selection = NoSel
  /\ duration = 0
  /\ audioLoaded = FALSE
  /\ audioError = FALSE
  /\ isDecoding = FALSE
  /\ ctxState = "none"
  /\ audioBufferRef = FALSE
  /\ decodable = "unknown"
  /\ sources = [i \in SrcIds |-> [status |-> "free", cp |-> FALSE, offset |-> 0, durationSec |-> 0]]
  /\ sourceRef = 0
  /\ elapsed = 0
  /\ selectionOffsetRef = 0
  /\ sourceDurationRef = 0
  /\ rafPending = [i \in RafIds |-> "none"]
  /\ rafRef = 0
  /\ timers = [i \in TimerIds |-> NoTimer]
  /\ timeoutRef = 0
  /\ tasks = << >>
  /\ userOps = 0
  /\ exported = NoExport
  /\ fetching = [load |-> FALSE, retry |-> 0]

\* the number of status polls counted individually; further polls are not
\* told apart
MaxPolls == 3

\* a JSON document of the transcript endpoint; "none" is an absent field
TranscriptStatuses == {"queued", "processing", "completed", "error", "none"}
TranscriptIds == {"t1", "none"}
TranscriptDocs ==
  { [json |-> "object", status |-> s, id |-> i, error |-> e] :
      s \in TranscriptStatuses, i \in TranscriptIds, e \in {"none"} }
  \cup { [json |-> "object", status |-> "error", id |-> i, error |-> "bad audio"] :
           i \in TranscriptIds }
NoDoc == [json |-> "none", status |-> "none", id |-> "none", error |-> "none"]
NullDoc == [json |-> "null", status |-> "none", id |-> "none", error |-> "none"]
\* a body that is not JSON: response.json() rejects
NotJson == [json |-> "invalid", status |-> "none", id |-> "none", error |-> "none"]

\* what a fetch of the backend can produce: a rejected promise, or a response
\* with an HTTP status and a body
HttpStatuses == {"200", "401", "500"}
FetchReplies ==
  { [net |-> "rejected", http |-> "none", body |-> NoDoc] }
  \cup { [net |-> "response", http |-> h, body |-> b] :
           h \in HttpStatuses, b \in TranscriptDocs \cup {NullDoc, NotJson} }
UploadReplies ==
  { [net |-> "rejected", http |-> "none", body |-> NoDoc] }
  \cup { [net |-> "response", http |-> h, body |-> b] :
           h \in HttpStatuses,
           b \in { [json |-> "object", status |-> "none", id |-> "none", error |-> "none"],
                   NotJson } }
responseOk(reply) == reply.http = "200"

NoResponse == [status |-> 0, kind |-> "none", error |-> << >>, doc |-> NoDoc]
\* NextResponse.json({ error }, { status })
errorResponse(status, message) ==
  [status |-> status, kind |-> "error", error |-> message, doc |-> NoDoc]
\* NextResponse.json(transcript)
transcriptResponse(doc) ==
  [status |-> 200, kind |-> "transcript", error |-> << >>, doc |-> doc]
\* the catch clause of POST
catchResponse(message) == errorResponse(500, message)

NoReply == [net |-> "none", http |-> "none", body |-> NoDoc]

InitRoute ==
  /\ ViewerUnused
  /\ last = [op |-> "init"]
  /\ \E apiKey \in BOOLEAN, file \in {"missing", "file", "text"} :
       probe = [fn |-> "route", pc |-> "checkKey", apiKey |-> apiKey, file |-> file,
                uploadResponse |-> NoReply, transcriptResponse |-> NoReply,
                transcript |-> NoDoc, response |-> NoResponse,
                polledId |-> "none", uploads |-> 0, submits |-> 0, polls |-> 0]

\* lines 10-12
POST_checkKey ==
  /\ probe.fn = "route"
  /\ probe.pc = "checkKey"
  /\ IF ~probe.apiKey
       THEN probe' = [probe EXCEPT !.pc = "responded",
                        !.response = errorResponse(500, <<"AssemblyAI API key not configured">>)]
       ELSE probe' = [probe EXCEPT !.pc = "formData"]
  /\ last' = [op |-> "checkKey"]
  /\ UNCHANGED ViewerVars

\* lines 14-22: the form is read; a field that is not a File has no arrayBuffer
POST_formData ==
  /\ probe.fn = "route"
  /\ probe.pc = "formData"
  /\ CASE probe.file = "missing" ->
            probe' = [probe EXCEPT !.pc = "responded",
                        !.response = errorResponse(400, <<"No file provided">>)]
       [] probe.file = "text" ->
            probe' = [probe EXCEPT !.pc = "responded",
                        !.response = catchResponse(<<"file.arrayBuffer is not a function">>)]
       [] OTHER -> probe' = [probe EXCEPT !.pc = "upload"]
  /\ last' = [op |-> "formData"]
  /\ UNCHANGED ViewerVars

\* the handler after the upload fetch has settled, were line 32 absent
uploadStep_NoOkCheck(reply) ==
  LET p == [probe EXCEPT !.uploads = 1, !.uploadResponse = reply] IN
  IF reply.net = "rejected"
    THEN probe' = [p EXCEPT !.pc = "responded",
                            !.response = catchResponse(<<"fetch failed">>)]
    ELSE IF reply.body.json = "invalid"
      THEN probe' = [p EXCEPT !.pc = "responded",
                              !.response = catchResponse(<<"Unexpected token">>)]
      ELSE probe' = [p EXCEPT !.pc = "submit"]

\* lines 23-37 after the fetch has settled with reply
uploadStep(reply) ==
  LET p == [probe EXCEPT !.uploads = 1, !.uploadResponse = reply] IN
  IF reply.net = "rejected"
    THEN probe' = [p EXCEPT !.pc = "responded",
                            !.response = catchResponse(<<"fetch failed">>)]
    ELSE IF ~responseOk(reply)
      THEN probe' = [p EXCEPT !.pc = "responded",
                              !.response = catchResponse(<<"Upload failed: ", reply.http>>)]
      ELSE IF reply.body.json = "invalid"
        THEN probe' = [p EXCEPT !.pc = "responded",
                                !.response = catchResponse(<<"Unexpected token">>)]
        ELSE probe' = [p EXCEPT !.pc = "submit"]

POST_upload ==
  /\ probe.fn = "route"
  /\ probe.pc = "upload"
  /\ \E reply \in UploadReplies : uploadStep(reply)
  /\ last' = [op |-> "upload"]
  /\ UNCHANGED ViewerVars

\* lines 40-58 after the fetch has settled with reply
submitStep(reply) ==
  LET p == [probe EXCEPT !.submits = 1, !.transcriptResponse = reply] IN
  IF reply.net = "rejected"
    THEN probe' = [p EXCEPT !.pc = "responded",
                            !.response = catchResponse(<<"fetch failed">>)]
    ELSE IF ~responseOk(reply)
      THEN probe' = [p EXCEPT !.pc = "responded",
                       !.response = catchResponse(<<"Transcription submission failed: ",
                                                    reply.http>>)]
      ELSE IF reply.body.json = "invalid"
        THEN probe' = [p EXCEPT !.pc = "responded",
                                !.response = catchResponse(<<"Unexpected token">>)]
        ELSE IF reply.body.json = "null"
          THEN probe' = [p EXCEPT !.pc = "responded",
                           !.response = catchResponse(<<"Cannot read properties of null">>)]
          ELSE probe' = [p EXCEPT !.pc = "poll", !.transcript = reply.body]

POST_submit ==
  /\ probe.fn = "route"
  /\ probe.pc = "submit"
  /\ \E reply \in FetchReplies : submitStep(reply)
  /\ last' = [op |-> "submit"]
  /\ UNCHANGED ViewerVars

\* the condition of the while loop, line 62
stillPolling(transcript) ==
  transcript.status # "completed" /\ transcript.status # "error"

\* lines 63-72: one turn of the loop, which asks for the id of the document it
\* holds; the reply is taken whatever its HTTP status
pollStep(reply) ==
  LET p == [probe EXCEPT !.polls = Min(probe.polls + 1, MaxPolls),
                         !.polledId = probe.transcript.id] IN
  IF reply.net = "rejected"
    THEN probe' = [p EXCEPT !.pc = "responded",
                            !.response = catchResponse(<<"fetch failed">>)]
    ELSE IF reply.body.json = "invalid"
      THEN probe' = [p EXCEPT !.pc = "responded",
                              !.response = catchResponse(<<"Unexpected token">>)]
      ELSE IF reply.body.json = "null"
        THEN probe' = [p EXCEPT !.pc = "responded",
                         !.response = catchResponse(<<"Cannot read properties of null">>)]
        ELSE probe' = [p EXCEPT !.transcript = reply.body]

POST_poll ==
  /\ probe.fn = "route"
  /\ probe.pc = "poll"
  /\ stillPolling(probe.transcript)
  /\ \E reply \in FetchReplies : pollStep(reply)
  /\ last' = [op |-> "poll"]
  /\ UNCHANGED ViewerVars

\* lines 75-80
POST_finish ==
  /\ probe.fn = "route"
  /\ probe.pc = "poll"
  /\ ~stillPolling(probe.transcript)
  /\ IF probe.transcript.status = "error"
       THEN probe' = [probe EXCEPT !.pc = "responded",
                        !.response = catchResponse(<<"Transcription failed: ",
                                                     probe.transcript.error>>)]
       ELSE probe' = [probe EXCEPT !.pc = "responded",
                        !.response = transcriptResponse(probe.transcript)]
  /\ last' = [op |-> "finish"]
  /\ UNCHANGED ViewerVars

NextRoute ==
  \/ POST_checkKey
  \/ POST_formData
  \/ POST_upload
  \/ POST_submit
  \/ POST_poll
  \/ POST_finish

SpecRoute == InitRoute /\ [][NextRoute]_vars

\* the runtime runs every continuation of the handler whose await has settled;
\* the backend's replies are not constrained
SpecRouteFair == SpecRoute /\ WF_vars(NextRoute)

\* ------------------------------------------------------------- upload and home pages
\* Files the user can drop or pick: 1 and 2 are audio and video files, 3 is a
\* text file and 4 a file whose type the browser does not know.
Files == 1..4
fileType(f) ==
  CASE f = 1 -> "audio/mpeg"
    [] f = 2 -> "video/mp4"
    [] f = 3 -> "text/plain"
    [] OTHER -> ""
\* file.type.startsWith("audio/") || file.type.startsWith("video/")
isAudioOrVideo(f) == fileType(f) \in {"audio/mpeg", "video/mp4"}

NoTranscript == [src |-> "none", file |-> 0]
\* the transcript document the route answers for file f
transcriptOf(f) == [src |-> "uploaded", file |-> f]
demoTranscript == [src |-> "demo", file |-> 0]
NoUrl == [src |-> "none", file |-> 0, revoked |-> FALSE]
\* URL.createObjectURL(audioFile)
createObjectURL(f) == [src |-> "blob", file |-> f, revoked |-> FALSE]
demoAudioUrl == [src |-> "demo", file |-> 0, revoked |-> FALSE]

\* what the fetch of /api/transcribe settles with
TranscribeReplies ==
  { [net |-> "rejected", ok |-> FALSE, json |-> "none"],
    [net |-> "response", ok |-> TRUE, json |-> "object"],
    [net |-> "response", ok |-> TRUE, json |-> "invalid"],
    [net |-> "response", ok |-> FALSE, json |-> "object"],
    [net |-> "response", ok |-> FALSE, json |-> "invalid"] }

\* the state of a Home component that has rendered once and not yet run its
\* effects
homeMounted(p) ==
  [p EXCEPT !.page = "home", !.navigating = FALSE,
            !.selectedFile = 0, !.isProcessing = FALSE,
            !.audioUrl = NoUrl, !.demoTranscriptData = NoTranscript,
            !.isDemoLoading = TRUE, !.error = FALSE,
            !.effects = "pending", !.demoFetch = FALSE]

\* an upload page that has just been mounted, and no Home component
uploadMounted(p) ==
  [p EXCEPT !.page = "upload", !.navigating = FALSE,
            !.selectedFile = 0, !.isProcessing = FALSE,
            !.audioUrl = NoUrl, !.demoTranscriptData = NoTranscript,
            !.isDemoLoading = TRUE, !.error = FALSE,
            !.effects = "none", !.demoFetch = FALSE]

NoPages ==
  [fn |-> "pages", page |-> "none", navigating |-> FALSE,
   selectedFile |-> 0, isProcessing |-> FALSE, call |-> 0,
   audioFile |-> 0, transcriptData |-> NoTranscript,
   audioUrl |-> NoUrl, demoTranscriptData |-> NoTranscript,
   isDemoLoading |-> TRUE, error |-> FALSE, effects |-> "none",
   demoFetch |-> FALSE]

InitPages ==
  /\ ViewerUnused
  /\ last = [op |-> "init"]
  /\ probe \in {homeMounted(NoPages), uploadMounted(NoPages)}

\* handleFiles with the first file of the list (drop or file input)
handleFiles(f) ==
  /\ probe.fn = "pages"
  /\ probe.page = "upload"
  /\ IF ~isAudioOrVideo(f)
       THEN /\ probe' = probe
            /\ last' = [op |-> "filesInvalid"]
       ELSE /\ probe' = [probe EXCEPT !.selectedFile = f]
            /\ last' = [op |-> "filesSelected"]
  /\ UNCHANGED ViewerVars

\* the clear button is rendered when a file is selected and disabled while
\* processing
clearSelectedFile ==
  /\ probe.fn = "pages"
  /\ probe.page = "upload"
  /\ probe.selectedFile # 0
  /\ ~probe.isProcessing
  /\ probe' = [probe EXCEPT !.selectedFile = 0]
  /\ last' = [op |-> "clearSelected"]
  /\ UNCHANGED ViewerVars

\* processFile up to its await: the Process button is rendered when a file is
\* selected and disabled while processing
processFile ==
  /\ probe.fn = "pages"
  /\ probe.page = "upload"
  /\ probe.selectedFile # 0
  /\ ~probe.isProcessing
  /\ probe' = [probe EXCEPT !.isProcessing = TRUE, !.call = probe.selectedFile]
  /\ last' = [op |-> "processBegin"]
  /\ UNCHANGED ViewerVars

\* the transcribe call succeeded: an OK response whose body is a document
callSucceeded(reply) ==
  reply.net = "response" /\ reply.ok /\ reply.json = "object"

\* the rest of processFile, were the file stored before the response is looked at
processSettled_StoresFileFirst(reply) ==
  IF callSucceeded(reply)
    THEN /\ probe' = [probe EXCEPT !.audioFile = probe.call,
                                   !.transcriptData = transcriptOf(probe.call),
                                   !.navigating = TRUE,
                                   !.isProcessing = FALSE, !.call = 0]
         /\ last' = [op |-> "processOk"]
    ELSE /\ probe' = [probe EXCEPT !.audioFile = probe.call,
                                   !.isProcessing = FALSE, !.call = 0]
         /\ last' = [op |-> "processFail"]

\* the rest of processFile once the fetch has settled with reply (lines 117-145);
\* selectedFile is the one the call was made with
processSettled(reply) ==
  IF callSucceeded(reply)
    THEN /\ probe' = [probe EXCEPT !.audioFile = probe.call,
                                   !.transcriptData = transcriptOf(probe.call),
                                   !.navigating = TRUE,
                                   !.isProcessing = FALSE, !.call = 0]
         /\ last' = [op |-> "processOk"]
    ELSE /\ probe' = [probe EXCEPT !.isProcessing = FALSE, !.call = 0]
         /\ last' = [op |-> "processFail"]

processFileSettle ==
  /\ probe.fn = "pages"
  /\ probe.page = "upload"
  /\ probe.call # 0
  /\ \E reply \in TranscribeReplies : processSettled(reply)
  /\ UNCHANGED ViewerVars

\* router.push('/') takes effect: the upload page goes and Home renders for
\* the first time
HomeMount ==
  /\ probe.fn = "pages"
  /\ probe.page = "upload"
  /\ probe.navigating
  /\ probe' = homeMounted(probe)
  /\ last' = [op |-> "homeMount"]
  /\ UNCHANGED ViewerVars

\* the two effects of Home after its first render (lines 27-37 and 40-65)
HomeEffects ==
  /\ probe.fn = "pages"
  /\ probe.page = "home"
  /\ probe.effects = "pending"
  /\ probe' = [probe EXCEPT
       !.effects = "done",
       !.audioUrl = IF probe.audioFile # 0 THEN createObjectURL(probe.audioFile)
                    ELSE probe.audioUrl,
       !.isDemoLoading = TRUE,
       !.demoFetch = (probe.transcriptData = NoTranscript)]
  /\ last' = [op |-> "homeEffects"]
  /\ UNCHANGED ViewerVars

\* loadDemoData after its fetch has settled
loadDemoData ==
  /\ probe.fn = "pages"
  /\ probe.page = "home"
  /\ probe.demoFetch
  /\ \E ok \in BOOLEAN :
       IF ok
         THEN /\ probe' = [probe EXCEPT !.demoFetch = FALSE, !.isDemoLoading = FALSE,
                                        !.demoTranscriptData = demoTranscript]
              /\ last' = [op |-> "demoLoaded"]
         ELSE /\ probe' = [probe EXCEPT !.demoFetch = FALSE, !.isDemoLoading = FALSE,
                                        !.error = TRUE]
              /\ last' = [op |-> "demoFailed"]
  /\ UNCHANGED ViewerVars

\* the "Upload New File" link: Home is unmounted (its effect cleanup revokes
\* the URL) and the upload page is mounted
UploadLink ==
  /\ probe.fn = "pages"
  /\ probe.page = "home"
  /\ probe' = uploadMounted(probe)
  /\ last' = [op |-> "uploadLink"]
  /\ UNCHANGED ViewerVars

\* what Home renders in the state p (lines 67-159)
currentTranscriptData(p) ==
  IF p.transcriptData # NoTranscript THEN p.transcriptData ELSE p.demoTranscriptData
currentAudioUrl(p) ==
  IF p.audioUrl # NoUrl THEN p.audioUrl ELSE demoAudioUrl
NoViewer == [shown |-> "none", transcriptData |-> NoTranscript, audioUrl |-> NoUrl]
HomeRender(p) ==
  IF p.transcriptData = NoTranscript /\ p.isDemoLoading
    THEN [NoViewer EXCEPT !.shown = "loading"]
    ELSE IF p.error
      THEN [NoViewer EXCEPT !.shown = "error"]
      ELSE IF currentTranscriptData(p) # NoTranscript
        THEN [shown |-> "viewer", transcriptData |-> currentTranscriptData(p),
              audioUrl |-> currentAudioUrl(p)]
        ELSE [NoViewer EXCEPT !.shown = "empty"]

NextPages ==
  \/ \E f \in Files : handleFiles(f)
  \/ clearSelectedFile
  \/ processFile
  \/ processFileSettle
  \/ HomeMount
  \/ HomeEffects
  \/ loadDemoData
  \/ UploadLink

SpecPages == InitPages /\ [][NextPages]_vars

\* ------------------------------------------------------------- claims
Sounding == { s \in SrcIds : sources[s].status = "playing" }
PendingTimers == { t \in TimerIds : timers[t] # NoTimer }
PendingRafs == { r \in RafIds : rafPending[r] # "none" }

\* C1: at every instant at most one one-shot source is sounding, whatever the
\* interleaving of user operations, notifications, timers and the asynchronous
\* steps of starting playback.
C1_AtMostOneSounding == Cardinality(Sounding) <= 1

\* C2: the end-of-range notification of a source that is not the current source
\* changes neither the playback state nor the current source, schedules no
\* restart timer and starts no source.
C2_StaleNotificationIgnored ==
  [][\A s \in SrcIds :
       (sources[s].status = "ended" /\ sourceRef # s /\ sources'[s].status = "free")
         => /\ isPlaying' = isPlaying
            /\ isPausing' = isPausing
            /\ sourceRef' = sourceRef
            /\ timers' = timers
            /\ timeoutRef' = timeoutRef
            /\ \A r \in SrcIds \ {s} : sources'[r] = sources[r]]_vars

\* C2 witness: a superseded source's notification has been delivered while
\* another source is current.
C2_Witness == last.op = "endedStale" /\ sourceRef # 0

\* C3: after each adjustStartTime/adjustEndTime call the selection satisfies
\* 0 <= start < end <= total audio duration.
C3_SelectionWithinAudio ==
  last.op \in {"adjustStartTime", "adjustEndTime"}
    => /\ 0 <= selection.start
       /\ selection.start < selection.end
       /\ selection.end <= BufferDurationMs

\* C4: after any adjustStartTime/adjustEndTime call the selection is at least
\* 100 ms wide.
C4_MinimumWidth ==
  last.op \in {"adjustStartTime", "adjustEndTime"}
    => msToSeconds(selection.end) - msToSeconds(selection.start) >= MinWidthSec

\* vocabulary of the claims that follow
ScheduledEnd == selectionOffsetRef + sourceDurationRef
HandledEndOps == {"endedExtend", "endedNoEngine", "endedLoop", "endedStop"}
AdjustOps == {"adjustStartTime", "adjustEndTime"}
\* no frame request is left that would keep the feed going
FeedCancelled == rafRef = 0 /\ \A r \in RafIds : rafPending[r] # "T"

\* C5: when the current source ends with its scheduled end not before the
\* current selection end minus 0.01 s, the state becomes PausedBetweenLoops
\* with a 200 ms restart timer scheduled, and when that timer fires playback
\* restarts from the selection start.
C5_LoopPauseAndRestart ==
  [][/\ (last'.op \in HandledEndOps /\ selection # NoSel
           /\ ~(ScheduledEnd < msToSeconds(selection.end) - EndToleranceSec))
          => /\ isPlaying' /\ isPausing'
             /\ sourceRef' = 0
             /\ timeoutRef' # 0
             /\ timers'[timeoutRef'].delay = loopPauseDuration
     /\ (last'.op = "timerRestart")
          => /\ Len(tasks') = Len(tasks) + 1
             /\ tasks'[Len(tasks')].sel.start = selection.start]_vars

\* C6: a one-shot is not rescheduled when the selection end moves later; when
\* the current source's notification finds scheduledEnd < currentEnd - 0.01 s,
\* a new one-shot covering exactly [scheduledEnd, currentEnd) is started in the
\* same step, no loop pause is entered and no restart timer is scheduled; this
\* holds again for the one-shot so started.
C6_LiveExtension ==
  [][/\ (last'.op = "adjustEndTime" /\ CurrentPlaying)
          => /\ sources' = sources
             /\ sourceRef' = sourceRef
             /\ selectionOffsetRef' = selectionOffsetRef
             /\ sourceDurationRef' = sourceDurationRef
     /\ (last'.op \in HandledEndOps /\ selection # NoSel
           /\ ScheduledEnd < msToSeconds(selection.end) - EndToleranceSec)
          => /\ sourceRef' # 0
             /\ sources'[sourceRef'].status = "playing"
             /\ Cardinality({ s \in SrcIds : sources'[s].status \in {"playing", "inert"} })
                  = Cardinality({ s \in SrcIds : sources[s].status \in {"playing", "inert"} }) + 1
             /\ selectionOffsetRef' = ScheduledEnd
             /\ selectionOffsetRef' + sourceDurationRef' = msToSeconds(selection.end)
             /\ elapsed' = 0
             /\ isPlaying'
             /\ isPausing' = isPausing
             /\ timers' = timers
             /\ timeoutRef' = timeoutRef]_vars

\* C6 witness: an extension one-shot has itself been extended: the running
\* one-shot starts one button step past the end of the clicked word.
C6_Witness ==
  /\ last.op = "endedExtend"
  /\ CurrentPlaying
  /\ \E i \in 1..Len(Words) :
       /\ selection.text = Words[i].text
       /\ selectionOffsetRef = msToSeconds(Words[i].end) + ButtonDeltaSec
       /\ ScheduledEnd = msToSeconds(selection.end)

\* C7: when the restart timer fires, the one-shot it starts uses the
\* selection's start and end as they are at that moment.
C7_RestartReadsSelectionFresh ==
  [][(last'.op = "timerRestart")
       => /\ Len(tasks') = Len(tasks) + 1
          /\ tasks'[Len(tasks')].sel.start = selection.start
          /\ tasks'[Len(tasks')].sel.end = selection.end]_vars

\* C8: adjustStartTime changes only the selection's start and adjustEndTime
\* only its end: the current source, its recorded clock, offset and duration,
\* the playback state, the restart timer, the feed, the pending starts, the
\* other boundary and the text are unchanged.
C8_AdjustFrame ==
  [][(last'.op \in AdjustOps)
       => /\ sources' = sources /\ sourceRef' = sourceRef
          /\ elapsed' = elapsed
          /\ selectionOffsetRef' = selectionOffsetRef
          /\ sourceDurationRef' = sourceDurationRef
          /\ isPlaying' = isPlaying /\ isPausing' = isPausing
          /\ timers' = timers /\ timeoutRef' = timeoutRef
          /\ rafPending' = rafPending /\ rafRef' = rafRef
          /\ tasks' = tasks
          /\ selection'.text = selection.text
          /\ (last'.op = "adjustStartTime" => selection'.end = selection.end)
          /\ (last'.op = "adjustEndTime" => selection'.start = selection.start)]_vars

\* C8 witness: a boundary was moved during the pause between two loops, with
\* the restart timer pending.
C8_Witness ==
  /\ last.op \in AdjustOps
  /\ isPlaying /\ isPausing
  /\ timeoutRef # 0 /\ timers[timeoutRef] # NoTimer

\* C9: togglePlayPause invoked while Playing or PausedBetweenLoops ends in
\* Stopped with the feed cancelled, no restart timer pending and no current
\* source, and starts no source.
C9_ToggleStop ==
  [][(last'.op = "toggleStop")
       => /\ ~isPlaying' /\ ~isPausing'
          /\ FeedCancelled'
          /\ PendingTimers' = {}
          /\ sourceRef' = 0
          /\ \A s \in SrcIds : sources[s].status = "free" => sources'[s].status = "free"]_vars

\* C10: stop, a word click or drag-select made while a source is sounding or a
\* restart timer is pending, and unmount each leave no restart timer pending,
\* the feed cancelled and no source sounding.
C10_StateEnteringCancels ==
  [][(\/ last'.op \in {"toggleStop", "unmount"}
      \/ /\ last'.op \in {"wordClick", "wordClickPlaying", "dragSelect", "dragSelectPlaying"}
         /\ (Sounding # {} \/ PendingTimers # {}))
       => /\ PendingTimers' = {}
          /\ FeedCancelled'
          /\ Sounding' = {}]_vars

\* position of the current one-shot in the audio, as the feed computes it
currentSec == selectionOffsetRef + elapsed
\* a frame request is pending whose tick will run the feed's checks
FeedAlive == rafRef # 0 /\ rafPending[rafRef] = "T"

\* C11: while the state is Playing, however playback was started, once the
\* position of a one-shot that began before the current selection end has
\* reached that end, short of the one-shot's scheduled end, the feed is there to
\* stop the current source: a tick that runs the end check is pending.
C11_ShrinkStopsEarly ==
  (/\ isPlaying /\ ~isPausing /\ CurrentPlaying
   /\ selection # NoSel
   /\ selectionOffsetRef < msToSeconds(selection.end)
   /\ currentSec >= msToSeconds(selection.end)
   /\ currentSec < ScheduledEnd)
    => FeedAlive

\* C12: a word click during Playing stops the current source and puts a start
\* of exactly the clicked word's [start, end) under way at once, with no loop
\* pause and no restart timer; a drag-select during Playing stops the current
\* source and leaves the state Stopped with the new selection stored.
C12_NewSelectionWhilePlaying ==
  [][/\ (last'.op \in {"wordClickPlaying", "mouseClickPlaying"} /\ isPlaying /\ ~isPausing)
          => /\ Sounding' \subseteq Sounding \ {sourceRef}
             /\ ~isPausing' /\ timeoutRef' = 0
             /\ Len(tasks') = Len(tasks) + 1
             /\ tasks'[Len(tasks')].pc = "ctxReady"
             /\ \E i \in 1..Len(Words) :
                  /\ selection' = wordSelection(i)
                  /\ tasks'[Len(tasks')].sel.start = Words[i].start
                  /\ tasks'[Len(tasks')].sel.end = Words[i].end
     /\ (last'.op = "dragSelectPlaying" /\ isPlaying /\ ~isPausing)
          => /\ Sounding' \subseteq Sounding \ {sourceRef}
             /\ ~isPlaying' /\ ~isPausing'
             /\ sourceRef' = 0 /\ timeoutRef' = 0
             /\ tasks' = tasks
             /\ \E i, j \in 1..Len(Words) : selection' = rangeSelection(i, j)]_vars

\* the starts that have called decodeAudioData and await its result
DecodesInFlight == { i \in 1..Len(tasks) : tasks[i].pc = "decode" }

\* C13: decodeAudioData is invoked at most once for the loaded bytes: never are
\* two decodes in flight, and none is in flight once the decoded buffer is held.
C13_DecodeAtMostOnce ==
  Cardinality(DecodesInFlight) + (IF audioBufferRef THEN 1 ELSE 0) <= 1

\* C14: a handleDownload call made with no decoded buffer or no selection shows
\* an error to the user and hands no file to the browser.
C14_ExportWithoutBufferFails ==
  (last.op = "download" /\ (selection = NoSel \/ ~audioBufferRef))
    => /\ exported.toast = "Download Error"
       /\ ~exported.file

\* C15: the exported segment holds ceil(end/1000*sampleRate) -
\* floor(start/1000*sampleRate) frames per channel, and frame i of channel c is
\* the source buffer's own sample floor(start/1000*sampleRate)+i of channel c.
C15_ExportSampleRange ==
  (last.op = "download" /\ exported.file)
    => LET sr == exported.sampleRate
           first == (selection.start * sr) \div 1000
           frames == CeilDiv(selection.end * sr, 1000) - first
       IN  \A c \in 1..exported.numberOfChannels :
             /\ Len(exported.segment[c]) = frames
             /\ \A i \in 1..frames :
                  /\ first + (i - 1) < bufferLength(sr)
                  /\ ~exported.segment[c][i].nan
                  /\ exported.segment[c][i] = sourceData(exported.seed, c, sr, first + (i - 1))

\* C16: every source sample written to the file is the sample clamped to
\* [-1, 1] and scaled by 32768 when negative, by 32767 otherwise: the value
\* written lies in [-32768, 32767] and is less than one quantization step away
\* from the clamped, scaled sample, so nothing wrapped around.
C16_ExportQuantization ==
  (last.op = "download" /\ exported.file)
    => \A k \in 1..Len(exported.wav) :
         LET n == exported.numberOfChannels
             x == exported.segment[((k - 1) % n) + 1][((k - 1) \div n) + 1]
             w == exported.wav[k]
             clamped == Max(-SampleDen, Min(SampleDen, x.v))
             ideal == IF clamped < 0 THEN clamped * NegativeScale ELSE clamped * PositiveScale
         IN  ~x.nan
               => /\ Int16Min <= w /\ w <= Int16Max
                  /\ w * SampleDen - ideal < SampleDen
                  /\ ideal - w * SampleDen < SampleDen

\* C16 witness: a file was written from a segment holding samples above 1,
\* below -1 and strictly inside (-1, 0) and (0, 1).
C16_Witness ==
  /\ last.op = "download" /\ exported.file
  /\ \E i \in 1..Len(exported.segment[1]) : exported.segment[1][i].v > SampleDen
  /\ \E i \in 1..Len(exported.segment[1]) : exported.segment[1][i].v < -SampleDen
  /\ \E i \in 1..Len(exported.segment[1]) :
       exported.segment[1][i].v < 0 /\ exported.segment[1][i].v > -SampleDen
  /\ \E i \in 1..Len(exported.segment[1]) :
       exported.segment[1][i].v > 0 /\ exported.segment[1][i].v < SampleDen

\* a fetch or decode failure is showing, or a retry started from it is under way
LoadFailed == audioError \/ fetching.retry > 0

\* C17: right after a fetch failure or a decode failure the playback state is
\* Stopped and the Play button is disabled; while the error is shown or a
\* retry is in flight, only a retry's successful fetch enables the button; the retry action drops the bytes and fetches again;
\* a successful retry clears the error and, with a selection, re-enables Play.
C17_FailureDisablesUntilRetry ==
  [][/\ (last'.op \in {"fetchFail", "retryFetchFail", "decodeFail"})
          => /\ audioError' /\ ~PlayButtonEnabled'
             /\ ~isPlaying' /\ ~isPausing' /\ Sounding' = {}
     /\ (LoadFailed /\ ~PlayButtonEnabled /\ PlayButtonEnabled')
          => last'.op = "retryFetchOk"
     /\ (last'.op = "retryLoadAudio")
          => /\ ~audioLoaded' /\ ~audioError' /\ ~PlayButtonEnabled'
             /\ fetching'.retry = fetching.retry + 1
     /\ (last'.op = "retryFetchOk")
          => /\ audioLoaded' /\ ~audioError'
             /\ ((selection # NoSel /\ ~isDecoding) => PlayButtonEnabled')]_vars

\* C17 witness: the decode failed, Retry was pressed and its fetch succeeded:
\* the Play button is enabled again.
C17_Witness ==
  /\ last.op = "retryFetchOk"
  /\ decodable = "no"
  /\ PlayButtonEnabled

\* C18: when the context cannot be resumed the playback state is reset to
\* Stopped and the Play button is left enabled.
C18_PlaybackErrorLeavesPlayEnabled ==
  (last.op = "resumeFail")
    => /\ ~isPlaying /\ ~isPausing
       /\ PlayButtonEnabled

\* C19: the word lookup returns the first word, in sequence order, whose
\* [start, end] contains the time, and no word when none contains it; at
\* the boundary shared by two adjacent words it returns the earlier one.
C19_WordLookupFirstMatch ==
  (probe.fn = "lookup" /\ probe.out # -1)
    => LET words == probe.words
           t     == probe.timeInSeconds
           InWord(k) == words[k].start * 1000 <= t /\ t <= words[k].end * 1000
       IN  /\ probe.out \in 0..Len(words)
           /\ (probe.out = 0) <=> (\A k \in 1..Len(words) : ~InWord(k))
           /\ probe.out > 0 =>
                /\ InWord(probe.out)
                /\ \A k \in 1..(probe.out - 1) : ~InWord(k)
           /\ \A k \in 1..(Len(words) - 1) :
                (words[k].end * 1000 = t /\ words[k + 1].start * 1000 = t
                   /\ \A m \in 1..(k - 1) : ~InWord(m))
                  => probe.out = k

\* a lookup answered at the boundary shared by two adjacent words
C19_Witness ==
  /\ probe.fn = "lookup"
  /\ probe.out = 1
  /\ Len(probe.words) >= 2
  /\ probe.words[1].end = probe.words[2].start
  /\ probe.timeInSeconds = probe.words[1].end * 1000

\* C20: building a selection from two word indices is order-independent:
\* (i, j) and (j, i) give the same selection, whose start is the start of
\* word min(i, j), whose end is the end of word max(i, j), and whose text
\* is the words min..max joined by the transcript's word separator.
C20_SelectionOrderIndependent ==
  (probe.fn = "range" /\ probe.out # NoSel)
    => LET words == probe.words
           lo    == IF probe.i <= probe.j THEN probe.i ELSE probe.j
           hi    == IF probe.i <= probe.j THEN probe.j ELSE probe.i
           sep   == IF probe.languageCode \in {"ja", "JA"} THEN << >> ELSE << " " >>
           Piece(k) == IF k = lo THEN words[k].text ELSE sep \o words[k].text
           Joined[k \in lo..hi] == IF k = lo THEN Piece(k) ELSE Joined[k - 1] \o Piece(k)
       IN  /\ probe.out = rangeSelectionOf(words, getWordSeparator(probe.languageCode),
                                           probe.j, probe.i)
           /\ probe.out.start = words[lo].start
           /\ probe.out.end = words[hi].end
           /\ probe.out.text = Joined[hi]
           /\ selection = probe.out

\* a selection built from a pair given in descending order, across words
\* that differ
C20_Witness ==
  /\ probe.fn = "range"
  /\ probe.out # NoSel
  /\ probe.i > probe.j
  /\ probe.words[probe.i] # probe.words[probe.j]
  /\ probe.words[probe.i].end > probe.words[probe.j].end

C22_FeedKeepsRunning ==
  [][/\ (\E s \in SrcIds : sources[s].status # "playing" /\ sources'[s].status = "playing")
          => PendingRafs' # {}
     /\ (/\ last'.op \in {"rafDead", "rafTick", "rafStop"}
         /\ isPlaying /\ ~isPausing /\ CurrentPlaying
         /\ selection # NoSel
         /\ currentSec < msToSeconds(selection.end))
          => PendingRafs' # {}]_vars

\* the three playback states as the component tells them apart: the button
\* shows "active" while isPlaying || isPausing, and isPausing marks the gap
\* between two loops
Stopped == ~isPlaying /\ ~isPausing
Playing == isPlaying /\ ~isPausing
PausedBetweenLoops == isPausing

\* C23: exactly one of Stopped, Playing, PausedBetweenLoops holds in every
\* state, and the state never changes from Stopped to PausedBetweenLoops
\* (every other change between two of the three states is allowed).
C23_StateMachine ==
  [][/\ Cardinality({ b \in { << "S", Stopped' >>, << "P", Playing' >>,
                               << "L", PausedBetweenLoops' >> } : b[2] }) = 1
     /\ ~(Stopped /\ PausedBetweenLoops')]_vars

\* C23 witness: the end notification of a source stopped by the user is
\* delivered while the state is Stopped, and the state stays Stopped.
C23_Witness == last.op = "endedStale" /\ Stopped /\ sourceRef = 0

\* C24: loading only fetches and stores the bytes; the AudioContext is created
\* and a decode is started only by a play request; no one-shot exists before
\* a decoded buffer is held; and the step that starts the first one-shot
\* completes the decode of the earliest play request still decoding.
C24_LazyDecodeOrdering ==
  [][/\ (last'.op \in {"fetchOk", "fetchFail", "retryLoadAudio", "retryFetchOk", "retryFetchFail"})
          => UNCHANGED << ctxState, audioBufferRef, tasks, sources >>
     /\ (ctxState = "none" /\ ctxState' \in {"suspended", "running"})
          => Len(tasks') = Len(tasks) + 1
     /\ (DecodesInFlight' # {}) => (tasks' # << >> /\ ctxState' # "none")
     /\ (\E s \in SrcIds : sources[s].status = "free" /\ sources'[s].status # "free")
          => audioBufferRef'
     /\ (~audioBufferRef /\ audioBufferRef')
          => \E k \in DecodesInFlight :
               /\ tasks' = RemoveAt(tasks, k)
               /\ \A j \in DecodesInFlight : k <= j]_vars

\* the steps that run stopCurrentSource and start nothing afterwards
StopOps == {"toggleStop", "dragSelectPlaying", "mouseClickPlaying", "unmount"}

\* C25: stopCurrentSource run when no source is current, when the current
\* source has already ended, or right after another stopCurrentSource leaves
\* the state Stopped with no current source, no restart timer and no feed,
\* surfaces no error, and running it once more would change nothing.
C25_StopIdempotent ==
  [][(/\ last'.op \in StopOps
      /\ \/ sourceRef = 0
         \/ (sourceRef # 0 /\ sources[sourceRef].status = "ended")
         \/ last.op \in StopOps)
       => /\ Stopped'
          /\ sourceRef' = 0
          /\ PendingTimers' = {}
          /\ mounted' => FeedCancelled'
          /\ audioError' = audioError
          /\ CancelRafPending' = rafPending'
          /\ ClearTimeoutTimers' = timers'
          /\ StopSources' = sources']_vars

\* C26: for every transcript whose words have start <= end and starts that
\* never decrease, a selection made by a word click or by a drag-select over
\* words has 0 <= start < end.
C26_SelectionNonEmpty ==
  (/\ probe.fn \in {"click", "range"}
   /\ probe.out # NoSel
   /\ \A k \in 1..Len(probe.words) : probe.words[k].start <= probe.words[k].end
   /\ \A k \in 1..(Len(probe.words) - 1) : probe.words[k].start <= probe.words[k + 1].start)
    => /\ 0 <= probe.out.start
       /\ probe.out.start < probe.out.end

\* C27: the exported file is a consistent PCM WAV: 44 header bytes and
\* frames * channels 16-bit values make up its length; the RIFF size is the
\* length - 8 and the data size frames * channels * 2; the fmt chunk declares
\* PCM, the channel count, the sample rate, 16 bits, block align channels * 2
\* and byte rate sampleRate * channels * 2; value (f - 1) * channels + c of
\* the data is frame f of channel c.
C27_WavConsistent ==
  (last.op = "download" /\ exported.file)
    => LET h      == exported.header
           n      == exported.numberOfChannels
           sr     == exported.sampleRate
           frames == Len(exported.segment[1])
           U16(off) == h[off + 1] + 256 * h[off + 2]
           U32(off) == h[off + 1] + 256 * h[off + 2] + 65536 * h[off + 3]
                         + 16777216 * h[off + 4]
       IN  /\ Len(h) = 44
           /\ \A k \in 1..44 : h[k] \in 0..255
           /\ exported.length = 44 + frames * n * 2
           /\ Len(h) + 2 * Len(exported.wav) = exported.length
           /\ SubSeq(h, 1, 4) = << 82, 73, 70, 70 >>
           /\ U32(4) = exported.length - 8
           /\ SubSeq(h, 9, 12) = << 87, 65, 86, 69 >>
           /\ SubSeq(h, 13, 16) = << 102, 109, 116, 32 >>
           /\ U32(16) = 16
           /\ U16(20) = 1
           /\ U16(22) = n
           /\ U32(24) = sr
           /\ U32(28) = sr * n * 2
           /\ U16(32) = n * 2
           /\ U16(34) = 16
           /\ SubSeq(h, 37, 40) = << 100, 97, 116, 97 >>
           /\ U32(40) = frames * n * 2
           /\ Len(exported.wav) = frames * n
           /\ \A c \in 1..n : Len(exported.segment[c]) = frames
           /\ \A f \in 1..frames : \A c \in 1..n :
                exported.wav[(f - 1) * n + c] = quantizeSample(exported.segment[c][f])

\* C27 witness: a two-channel file of several frames was written
C27_Witness ==
  /\ last.op = "download" /\ exported.file
  /\ exported.numberOfChannels = 2
  /\ Len(exported.segment[1]) >= 2
  /\ Len(exported.header) = 44

\* C28: right after the user has stopped playback (toggle-stop or
\* drag-select while playing), any step other than a user play or word click
\* (a timer firing, an end notification, a start that was awaiting resume or
\* decode) leaves the state Stopped and makes no source sound.
C28_StoppedStaysStopped ==
  [][(/\ last.op \in {"toggleStop", "dragSelectPlaying"}
      /\ last'.op \notin {"togglePlay", "wordClick", "wordClickPlaying",
                          "mouseClick", "mouseClickPlaying"})
       => /\ Stopped'
          /\ Sounding' \subseteq Sounding]_vars

\* C29: when the state is Stopped there is no current source and no pending
\* restart timer; when it is PausedBetweenLoops there is no current source
\* and exactly one pending restart timer; a restart timer is never scheduled
\* while another one is pending.
C29_FlagsAgreeWithEngine ==
  [][/\ Stopped' => (sourceRef' = 0 /\ PendingTimers' = {})
     /\ PausedBetweenLoops' => (sourceRef' = 0 /\ Cardinality(PendingTimers') = 1)
     /\ (\E t \in TimerIds : timers[t] = NoTimer /\ timers'[t] # NoTimer)
          => PendingTimers = {}]_vars

\* the steps that build a selection or move one of its ends
SelectionOps ==
  {"wordClick", "wordClickPlaying", "mouseClick", "mouseClickPlaying",
   "dragSelect", "dragSelectPlaying", "adjustStartTime", "adjustEndTime"}

\* C30: starting, stopping, an end notification, an extension one-shot, the
\* loop pause, the timer-fired restart and a playback error leave the
\* selection's start, end and text unchanged; only a word click, a
\* drag-select, adjustStartTime and adjustEndTime change the selection.
C30_PlaybackKeepsSelection ==
  [][(last'.op \notin SelectionOps) => selection' = selection]_vars

\* C30 witness: a one-shot was started for a selection captured earlier while
\* the selection state, moved since, was left as it is
C30_Witness ==
  /\ last.op = "started"
  /\ selection # NoSel
  /\ selectionOffsetRef # msToSeconds(selection.start)

\* C31: whenever handleEnded starts an extension one-shot, the extension
\* starts at the position at which the previous one-shot stopped sounding
\* (its start offset plus the time it sounded).
C31_ExtensionContiguous ==
  [][(last'.op = "endedExtend")
       => selectionOffsetRef' = selectionOffsetRef + elapsed]_vars

Responded == probe.fn = "route" /\ probe.pc = "responded"
UploadFailed ==
  /\ probe.uploads = 1
  /\ (probe.uploadResponse.net = "rejected" \/ ~responseOk(probe.uploadResponse))
SubmissionFailed ==
  /\ probe.submits = 1
  /\ (probe.transcriptResponse.net = "rejected" \/ ~responseOk(probe.transcriptResponse))

\* C32: POST /api/transcribe answers 200 with the transcript document only when
\* the backend reported status 'completed'; a missing API key gives 500, a
\* missing file 400, and a failed upload, a failed submission or a backend
\* status 'error' each give 500 with an error message; no step is executed
\* after a failed one.
C32_RouteOutcomes ==
  (probe.fn = "route") =>
    /\ UploadFailed => (probe.submits = 0 /\ probe.polls = 0)
    /\ SubmissionFailed => probe.polls = 0
    /\ probe.submits = 1 => probe.uploads = 1
    /\ probe.polls > 0 => probe.submits = 1
    /\ Responded =>
         /\ probe.response.status \in {200, 400, 500}
         /\ probe.response.status = 200 =>
              /\ probe.response.kind = "transcript"
              /\ probe.response.doc = probe.transcript
              /\ probe.transcript.status = "completed"
         /\ ~probe.apiKey =>
              (probe.response.status = 500 /\ probe.uploads = 0)
         /\ (probe.apiKey /\ probe.file = "missing") =>
              (probe.response.status = 400 /\ probe.uploads = 0)
         /\ (UploadFailed \/ SubmissionFailed \/ probe.transcript.status = "error") =>
              /\ probe.response.status = 500
              /\ probe.response.kind = "error"
              /\ probe.response.error # << >>

C32_Witness ==
  /\ Responded
  /\ UploadFailed
  /\ probe.uploadResponse.http = "401"
  /\ probe.response = catchResponse(<<"Upload failed: ", "401">>)

\* C33: every request to POST /api/transcribe eventually receives a response,
\* whatever the backend replies to the status polls.
C33_EveryRequestAnswered == <>Responded


\* C34: upload processing is all-or-nothing. The shared context changes only
\* when processFile finishes after a successful transcribe call, and then the
\* audio file and the transcript of that same file are stored together and the
\* navigation is requested; when the call fails or is answered non-OK the
\* context is unchanged and no navigation is requested; in both outcomes
\* isProcessing is false afterwards; a file that is neither audio nor video
\* leaves the selected file unchanged.
C34_UploadAllOrNothing ==
  [][(probe.fn = "pages") =>
       /\ (probe'.audioFile # probe.audioFile
             \/ probe'.transcriptData # probe.transcriptData)
            => last'.op = "processOk"
       /\ (last'.op = "processOk") =>
            /\ probe'.audioFile = probe.call
            /\ probe'.transcriptData = transcriptOf(probe.call)
            /\ probe'.navigating
            /\ ~probe'.isProcessing
       /\ (last'.op = "processFail") =>
            /\ probe'.audioFile = probe.audioFile
            /\ probe'.transcriptData = probe.transcriptData
            /\ probe'.navigating = probe.navigating
            /\ probe'.page = probe.page
            /\ ~probe'.isProcessing
       /\ (last'.op = "filesInvalid") => probe'.selectedFile = probe.selectedFile
       /\ (probe.page = "upload" /\ probe'.page = "home") =>
            probe.transcriptData # NoTranscript]_vars

\* a second upload has failed after a first one succeeded: the context still
\* holds the first file and its transcript
C34_Witness ==
  /\ probe.fn = "pages"
  /\ last.op = "processFail"
  /\ probe.selectedFile = 2
  /\ probe.audioFile = 1
  /\ probe.transcriptData = transcriptOf(1)
  /\ ~probe.isProcessing

\* the pair (audio, transcript) is the one of an uploaded file or the demo's
MatchingPair(v) ==
  \/ /\ v.transcriptData.src = "uploaded"
     /\ v.audioUrl.src = "blob"
     /\ v.audioUrl.file = v.transcriptData.file
     /\ ~v.audioUrl.revoked
  \/ /\ v.transcriptData.src = "demo"
     /\ v.audioUrl.src = "demo"

\* C35: in every render of the home page that shows the viewer, the viewer is
\* given the uploaded transcript with the uploaded file's audio URL, or the
\* demo transcript with the demo audio URL.
C35_ViewerGivenMatchingPair ==
  (probe.fn = "pages" /\ probe.page = "home" /\ HomeRender(probe).shown = "viewer")
    => MatchingPair(HomeRender(probe))


\* C36: whenever a source is current, selectionOffsetRef and sourceDurationRef
\* are the offset and the duration that source was started with, so that
\* their sum is its scheduled end when its end notification is handled; and
\* every step that makes a source current records the engine clock of that
\* moment (no time has elapsed since the recorded start).
C36_RecordedStartTriple ==
  [][/\ (sourceRef' # 0) =>
          /\ selectionOffsetRef' = sources'[sourceRef'].offset
          /\ sourceDurationRef' = sources'[sourceRef'].durationSec
     /\ (sourceRef' # 0 /\ last'.op \in {"started", "timerRestart", "endedExtend"}) =>
          elapsed' = 0
     /\ (sourceRef # 0 /\ last'.op \in HandledEndOps) =>
          ScheduledEnd = sources[sourceRef].offset + sources[sourceRef].durationSec]_vars

\* an extension one-shot is current: the recorded offset is where it was
\* started, past the start of the selection
C36_Witness ==
  /\ last.op = "endedExtend"
  /\ sourceRef # 0
  /\ selection # NoSel
  /\ sources[sourceRef].offset > msToSeconds(selection.start)
  /\ selectionOffsetRef = sources[sourceRef].offset
  /\ sourceDurationRef = sources[sourceRef].durationSec
  /\ sourceDurationRef > 0
  /\ elapsed = 0

====
